---- MODULE Spec2Model ----
(***************************************************************************)
(* SensorSeal: the batch-anchoring and breach-detection pipeline.          *)
(*   - DataAnchor, BreachNFT, DeviceRegistry (Solidity contracts)          *)
(*   - server.js: POST /ingest, processBatches, handleBreach               *)
(* Addresses and strings are model values; a content address (CID) is the  *)
(* index of the document in the content store, and keccak256 is modelled   *)
(* as a collision-free digest that is never the zero word.                 *)
(***************************************************************************)
EXTENDS Integers, Sequences, FiniteSets, TLC

(* ------------------------------ bounds -------------------------------- *)
MaxBatches == 2
MaxBreaches == 2
MaxReadings == 2
MaxPasses == 2
MaxFaults == 1
MaxBlocks == 1
MaxAnchorBatches == 3
MaxAgriReadings == 2
MaxArray == 2
TempMargin == 3

(* --------------------------- program constants ------------------------ *)
TEMP_MIN == 2
TEMP_MAX == 8
WINDOW_SECONDS == 60
BATCH_INTERVAL == 60

(* ------------------------------ identities ---------------------------- *)
NullAddr == "0x0"
Operator == "operator"
\* d1 and d2 are the devices scripts/register-device.ts registered before the
\* server starts; d3 is a key the registry does not know.
Provisioned == {"d1", "d2"}
Devices == Provisioned \cup {"d3"}
Addrs == Provisioned \cup {NullAddr}
Callers == {Operator, "eve"}
Products == {1, 2}
BatchIds == 0 .. 1
ZeroHash == 0
Hashes == 0 .. 1
Clock0 == 40 + WINDOW_SECONDS
WindowTimes == {Clock0 - WINDOW_SECONDS, Clock0}
BreachTypes == {"TEMP_LOW", "TEMP_HIGH"}
EmptyString == << >>
Uris == {EmptyString, <<"ipfs", 1>>}

VARIABLES
    \* DataAnchor storage
    batches, deviceToBatches, cidHashToBatch, committedHashes,
    \* BreachNFT storage
    nextId, breaches, deviceToBreaches, productToBreaches, batchToBreachToken,
    \* the outcome of the latest contract call (return value or revert reason)
    lastCall,
    \* DeviceRegistry storage
    isRegistered, devices, deviceList,
    \* wall clock (seconds) and the content store (batch documents, breach reports)
    clock, pinned, reports,
    \* server.js: readingsQueue (device -> array of readings) and the order of
    \* its keys, batchHistory, the processBatches calls, the response to the
    \* latest POST /ingest and the readings accepted so far
    readingsQueue, queueKeys, batchHistory, passes, ingest, accepted,
    \* the latest call of checkBreach: its argument and what it returned
    evaluation,
    \* the configuration read from the environment at start-up
    config,
    \* AgriSensorData: readings, dataHashes, and the members of each role
    agriReadings, dataHashes, roleMembers,
    \* the number of store, RPC and ledger calls that have failed so far
    faults

anchorVars == <<batches, deviceToBatches, cidHashToBatch, committedHashes>>
nftVars == <<nextId, breaches, deviceToBreaches, productToBreaches, batchToBreachToken>>
ledgerVars == <<anchorVars, nftVars>>
registryVars == <<isRegistered, devices, deviceList>>
storeVars == <<pinned, reports>>
queueVars == <<readingsQueue, queueKeys>>
serverVars == <<queueVars, batchHistory, passes, ingest, accepted, evaluation, config>>
agriVars == <<agriReadings, dataHashes, roleMembers>>
vars == <<ledgerVars, lastCall, registryVars, agriVars, clock, storeVars, serverVars,
          faults>>

(* ------------------------------ Solidity mappings --------------------- *)
\* mapping(K => uint256): a key never written reads as 0.
Lookup(map, key) == IF key \in DOMAIN map THEN map[key] ELSE 0
Store(map, key, value) ==
    [k \in DOMAIN map \cup {key} |-> IF k = key THEN value ELSE map[k]]
EmptyMapping == [k \in {} |-> 0]

(* ------------------------------ AccessControl ------------------------- *)
\* A role check that lets every caller through.
HasAdminRoleAnyone(caller) == TRUE

\* The constructors grant DEFAULT_ADMIN_ROLE to the deployer (the operator).
HasAdminRole(caller) == caller = Operator

(* ------------------------------ DataAnchor ---------------------------- *)
\* The checks of commitBatch with a window check that accepts windowEnd == windowStart.
CommitBatchErrorStrict(caller, device, cidHash, windowStart, windowEnd) ==
    IF ~HasAdminRole(caller) THEN "Unauthorized"
    ELSE IF device = NullAddr THEN "InvalidDevice"
    ELSE IF cidHash = ZeroHash THEN "InvalidCIDHash"
    ELSE IF windowEnd < windowStart THEN "InvalidTimeWindow"
    ELSE "ok"

\* The revert reason of commitBatch, or "ok".
CommitBatchError(caller, device, cidHash, windowStart, windowEnd) ==
    IF ~HasAdminRole(caller) THEN "Unauthorized"
    ELSE IF device = NullAddr THEN "InvalidDevice"
    ELSE IF cidHash = ZeroHash THEN "InvalidCIDHash"
    ELSE IF windowEnd <= windowStart THEN "InvalidTimeWindow"
    ELSE "ok"

\* A commitBatch that, for a hash that is already committed, writes the new
\* commitment over the stored one instead of appending it.
commitBatchUpsert(caller, device, cidHash, windowStart, windowEnd) ==
    LET commitment == [device |-> device, cidHash |-> cidHash,
                       windowStart |-> windowStart, windowEnd |-> windowEnd,
                       timestamp |-> clock]
    IN  IF CommitBatchError(caller, device, cidHash, windowStart, windowEnd) # "ok"
        THEN UNCHANGED anchorVars
        ELSE IF cidHash \in committedHashes
        THEN /\ batches' = [batches EXCEPT
                                ![Lookup(cidHashToBatch, cidHash) + 1] = commitment]
             /\ UNCHANGED <<deviceToBatches, cidHashToBatch, committedHashes>>
        ELSE /\ batches' = Append(batches, commitment)
             /\ deviceToBatches' =
                    [deviceToBatches EXCEPT ![device] = Append(@, Len(batches))]
             /\ cidHashToBatch' = Store(cidHashToBatch, cidHash, Len(batches))
             /\ committedHashes' = committedHashes \cup {cidHash}

\* A commitBatch that does not write the device index.
commitBatchNoDeviceIndex(caller, device, cidHash, windowStart, windowEnd) ==
    IF CommitBatchError(caller, device, cidHash, windowStart, windowEnd) = "ok"
    THEN /\ batches' = Append(batches,
                [device |-> device, cidHash |-> cidHash,
                 windowStart |-> windowStart, windowEnd |-> windowEnd,
                 timestamp |-> clock])
         /\ cidHashToBatch' = Store(cidHashToBatch, cidHash, Len(batches))
         /\ committedHashes' = committedHashes \cup {cidHash}
         /\ UNCHANGED deviceToBatches
    ELSE UNCHANGED anchorVars

\* A commitBatch that does not write the hash index.
commitBatchNoHashIndex(caller, device, cidHash, windowStart, windowEnd) ==
    IF CommitBatchError(caller, device, cidHash, windowStart, windowEnd) = "ok"
    THEN /\ batches' = Append(batches,
                [device |-> device, cidHash |-> cidHash,
                 windowStart |-> windowStart, windowEnd |-> windowEnd,
                 timestamp |-> clock])
         /\ deviceToBatches' =
                [deviceToBatches EXCEPT ![device] = Append(@, Len(batches))]
         /\ committedHashes' = committedHashes \cup {cidHash}
         /\ UNCHANGED cidHashToBatch
    ELSE UNCHANGED anchorVars

\* An id computation that hands out the id of the last stored commitment again.
CommitBatchIdLast == IF Len(batches) = 0 THEN 0 ELSE Len(batches) - 1

\* uint256 batchId = batches.length: the id commitBatch assigns and returns.
CommitBatchId == Len(batches)

commitBatch(caller, device, cidHash, windowStart, windowEnd) ==
    LET err == CommitBatchError(caller, device, cidHash, windowStart, windowEnd)
        batchId == CommitBatchId
    IN  IF err = "ok"
        THEN /\ batches' = Append(batches,
                    [device |-> device, cidHash |-> cidHash,
                     windowStart |-> windowStart, windowEnd |-> windowEnd,
                     timestamp |-> clock])
             /\ deviceToBatches' =
                    [deviceToBatches EXCEPT ![device] = Append(@, batchId)]
             /\ cidHashToBatch' = Store(cidHashToBatch, cidHash, batchId)
             /\ committedHashes' = committedHashes \cup {cidHash}
        ELSE UNCHANGED anchorVars

\* getBatch(batchId): the commitment, or the error it reverts with.
getBatch(batchId) ==
    IF batchId >= Len(batches) THEN [error |-> "BatchNotFound"]
    ELSE batches[batchId + 1]

\* getBatchesByDevice(device)
getBatchesByDevice(device) == deviceToBatches[device]

\* verifyCIDHash(cidHash): <<committed, batchId>>
verifyCIDHash(cidHash) ==
    IF cidHash \in committedHashes THEN <<TRUE, Lookup(cidHashToBatch, cidHash)>>
    ELSE <<FALSE, 0>>

getTotalBatches == Len(batches)

\* getLatestBatch(device): the id and the commitment, or the error.
getLatestBatch(device) ==
    LET deviceBatches == deviceToBatches[device]
    IN  IF Len(deviceBatches) = 0 THEN [error |-> "BatchNotFound"]
        ELSE [batchId |-> deviceBatches[Len(deviceBatches)],
              commitment |-> batches[deviceBatches[Len(deviceBatches)] + 1]]

getDeviceBatchCount(device) == Len(deviceToBatches[device])

(* ------------------------------ BreachNFT ----------------------------- *)
\* The checks of mint with an address check that looks at the recipient only.
MintErrorRecipientOnly(caller, to, device, metadataURI) ==
    IF ~HasAdminRole(caller) THEN "Unauthorized"
    ELSE IF to = NullAddr THEN "InvalidAddress"
    ELSE IF Len(metadataURI) = 0 THEN "InvalidTokenURI"
    ELSE "ok"

MintError(caller, to, device, metadataURI) ==
    IF ~HasAdminRole(caller) THEN "Unauthorized"
    ELSE IF to = NullAddr \/ device = NullAddr THEN "InvalidAddress"
    ELSE IF Len(metadataURI) = 0 THEN "InvalidTokenURI"
    ELSE "ok"

\* The record mint stores under tokenId.
BreachInfo(tokenId, to, device, traceTokenId, batchId, breachType, metadataURI) ==
    [tokenId |-> tokenId, owner |-> to, device |-> device,
     traceTokenId |-> traceTokenId, batchId |-> batchId, timestamp |-> clock,
     breachType |-> breachType, metadataURI |-> metadataURI]

\* A mint that takes the id before incrementing the counter (nextId++).
mintPostIncrement(caller, to, device, traceTokenId, batchId, breachType, metadataURI) ==
    IF MintError(caller, to, device, metadataURI) = "ok"
    THEN /\ nextId' = nextId + 1
         /\ breaches' = Append(breaches,
                BreachInfo(nextId, to, device, traceTokenId, batchId, breachType,
                           metadataURI))
         /\ deviceToBreaches' =
                [deviceToBreaches EXCEPT ![device] = Append(@, nextId)]
         /\ productToBreaches' =
                [productToBreaches EXCEPT ![traceTokenId] = Append(@, nextId)]
         /\ batchToBreachToken' = Store(batchToBreachToken, batchId, nextId)
    ELSE UNCHANGED nftVars

\* A mint that does not push the id to the product index.
mintNoProductIndex(caller, to, device, traceTokenId, batchId, breachType, metadataURI) ==
    IF MintError(caller, to, device, metadataURI) = "ok"
    THEN /\ nextId' = nextId + 1
         /\ breaches' = Append(breaches,
                BreachInfo(nextId + 1, to, device, traceTokenId, batchId,
                           breachType, metadataURI))
         /\ deviceToBreaches' =
                [deviceToBreaches EXCEPT ![device] = Append(@, nextId + 1)]
         /\ batchToBreachToken' = Store(batchToBreachToken, batchId, nextId + 1)
         /\ UNCHANGED productToBreaches
    ELSE UNCHANGED nftVars

\* A mint that stores nothing when a record with the same device, product,
\* batch, breach type and report location exists.
mintDedup(caller, to, device, traceTokenId, batchId, breachType, metadataURI) ==
    IF /\ MintError(caller, to, device, metadataURI) = "ok"
       /\ ~\E k \in 1 .. Len(breaches) :
              /\ breaches[k].device = device
              /\ breaches[k].traceTokenId = traceTokenId
              /\ breaches[k].batchId = batchId
              /\ breaches[k].breachType = breachType
              /\ breaches[k].metadataURI = metadataURI
    THEN /\ nextId' = nextId + 1
         /\ breaches' = Append(breaches,
                BreachInfo(nextId + 1, to, device, traceTokenId, batchId,
                           breachType, metadataURI))
         /\ deviceToBreaches' =
                [deviceToBreaches EXCEPT ![device] = Append(@, nextId + 1)]
         /\ productToBreaches' =
                [productToBreaches EXCEPT ![traceTokenId] = Append(@, nextId + 1)]
         /\ batchToBreachToken' = Store(batchToBreachToken, batchId, nextId + 1)
    ELSE UNCHANGED nftVars

\* A mint that keeps the first token recorded for a batch.
mintKeepsFirstBatchToken(caller, to, device, traceTokenId, batchId, breachType, metadataURI) ==
    IF MintError(caller, to, device, metadataURI) = "ok"
    THEN /\ nextId' = nextId + 1
         /\ breaches' = Append(breaches,
                BreachInfo(nextId + 1, to, device, traceTokenId, batchId,
                           breachType, metadataURI))
         /\ deviceToBreaches' =
                [deviceToBreaches EXCEPT ![device] = Append(@, nextId + 1)]
         /\ productToBreaches' =
                [productToBreaches EXCEPT ![traceTokenId] = Append(@, nextId + 1)]
         /\ batchToBreachToken' =
                IF batchId \in DOMAIN batchToBreachToken THEN batchToBreachToken
                ELSE Store(batchToBreachToken, batchId, nextId + 1)
    ELSE UNCHANGED nftVars

mint(caller, to, device, traceTokenId, batchId, breachType, metadataURI) ==
    LET err == MintError(caller, to, device, metadataURI)
        tokenId == nextId + 1
    IN  IF err = "ok"
        THEN /\ nextId' = tokenId
             /\ breaches' = Append(breaches,
                    BreachInfo(tokenId, to, device, traceTokenId, batchId,
                               breachType, metadataURI))
             /\ deviceToBreaches' =
                    [deviceToBreaches EXCEPT ![device] = Append(@, tokenId)]
             /\ productToBreaches' =
                    [productToBreaches EXCEPT ![traceTokenId] = Append(@, tokenId)]
             /\ batchToBreachToken' = Store(batchToBreachToken, batchId, tokenId)
        ELSE UNCHANGED nftVars

\* getBreachInfo(tokenId): breaches[tokenId], or the error it reverts with when
\* the slot was never written (its tokenId field reads 0).
getBreachInfo(tokenId) ==
    IF tokenId # 0 /\ \E k \in 1 .. Len(breaches) : breaches[k].tokenId = tokenId
    THEN breaches[CHOOSE k \in 1 .. Len(breaches) : breaches[k].tokenId = tokenId]
    ELSE [error |-> "BreachNotFound"]

getTotalBreaches == nextId

\* getBatchBreach(batchId): <<hasBreaches, tokenId>>
getBatchBreach(batchId) ==
    LET tokenId == Lookup(batchToBreachToken, batchId)
    IN  <<tokenId # 0, tokenId>>

\* The revert reason of markResolved, or "ok".
MarkResolvedError(caller, tokenId) ==
    IF ~HasAdminRole(caller) THEN "Unauthorized"
    ELSE IF getBreachInfo(tokenId) = [error |-> "BreachNotFound"] THEN "BreachNotFound"
    ELSE "ok"

\* A markResolved that writes the resolution into the stored record.
markResolvedInPlace(caller, tokenId) ==
    IF MarkResolvedError(caller, tokenId) = "ok"
    THEN /\ breaches' = [k \in 1 .. Len(breaches) |->
                IF breaches[k].tokenId = tokenId
                THEN [breaches[k] EXCEPT !.breachType = "RESOLVED"]
                ELSE breaches[k]]
         /\ UNCHANGED <<nextId, deviceToBreaches, productToBreaches,
                        batchToBreachToken>>
    ELSE UNCHANGED nftVars

\* markResolved(tokenId): emits BreachResolved, writes no storage.
markResolved(caller, tokenId) == UNCHANGED nftVars

getBreachesByDevice(device) == deviceToBreaches[device]

getBreachesByProduct(traceTokenId) == productToBreaches[traceTokenId]

(* ------------------------------ DeviceRegistry ------------------------ *)
\* The checks of addDevice with a registration check that only counts
\* devices that are active.
AddDeviceErrorActiveOnly(caller, deviceAddress, owner, metadataCID) ==
    IF ~HasAdminRole(caller) THEN "Unauthorized"
    ELSE IF deviceAddress = NullAddr \/ owner = NullAddr THEN "InvalidAddress"
    ELSE IF deviceAddress \in isRegistered /\ devices[deviceAddress].active
         THEN "DeviceAlreadyRegistered"
    ELSE IF Len(metadataCID) = 0 THEN "EmptyMetadataCID"
    ELSE "ok"

\* The revert reason of addDevice, or "ok".
AddDeviceError(caller, deviceAddress, owner, metadataCID) ==
    IF ~HasAdminRole(caller) THEN "Unauthorized"
    ELSE IF deviceAddress = NullAddr \/ owner = NullAddr THEN "InvalidAddress"
    ELSE IF deviceAddress \in isRegistered THEN "DeviceAlreadyRegistered"
    ELSE IF Len(metadataCID) = 0 THEN "EmptyMetadataCID"
    ELSE "ok"

\* The DeviceInfo of an address that was never registered (all fields zero).
NoDevice ==
    [owner |-> NullAddr, metadataCID |-> EmptyString, traceTokenId |-> 0,
     registeredAt |-> 0, active |-> FALSE]

addDevice(caller, deviceAddress, owner, metadataCID, traceTokenId) ==
    IF AddDeviceError(caller, deviceAddress, owner, metadataCID) = "ok"
    THEN /\ isRegistered' = isRegistered \cup {deviceAddress}
         /\ devices' = [devices EXCEPT ![deviceAddress] =
                            [owner |-> owner, metadataCID |-> metadataCID,
                             traceTokenId |-> traceTokenId,
                             registeredAt |-> clock, active |-> TRUE]]
         /\ deviceList' = Append(deviceList, deviceAddress)
    ELSE UNCHANGED registryVars

getTotalDevices == Len(deviceList)

SetActiveError(caller, deviceAddress) ==
    IF ~HasAdminRole(caller) THEN "Unauthorized"
    ELSE IF deviceAddress \notin isRegistered THEN "DeviceNotFound"
    ELSE "ok"

\* The revert reason of updateMetadata, or "ok".
UpdateMetadataError(caller, deviceAddress, newMetadataCID) ==
    IF ~HasAdminRole(caller) THEN "Unauthorized"
    ELSE IF deviceAddress \notin isRegistered THEN "DeviceNotFound"
    ELSE IF Len(newMetadataCID) = 0 THEN "EmptyMetadataCID"
    ELSE "ok"

updateMetadata(caller, deviceAddress, newMetadataCID) ==
    IF UpdateMetadataError(caller, deviceAddress, newMetadataCID) = "ok"
    THEN /\ devices' = [devices EXCEPT ![deviceAddress].metadataCID = newMetadataCID]
         /\ UNCHANGED <<isRegistered, deviceList>>
    ELSE UNCHANGED registryVars

\* A deactivation that also takes the device out of the registration map.
deactivateDeviceUnregisters(caller, deviceAddress) ==
    IF SetActiveError(caller, deviceAddress) = "ok"
    THEN /\ devices' = [devices EXCEPT ![deviceAddress].active = FALSE]
         /\ isRegistered' = isRegistered \ {deviceAddress}
         /\ UNCHANGED deviceList
    ELSE UNCHANGED registryVars

deactivateDevice(caller, deviceAddress) ==
    IF SetActiveError(caller, deviceAddress) = "ok"
    THEN /\ devices' = [devices EXCEPT ![deviceAddress].active = FALSE]
         /\ UNCHANGED <<isRegistered, deviceList>>
    ELSE UNCHANGED registryVars

reactivateDevice(caller, deviceAddress) ==
    IF SetActiveError(caller, deviceAddress) = "ok"
    THEN /\ devices' = [devices EXCEPT ![deviceAddress].active = TRUE]
         /\ UNCHANGED <<isRegistered, deviceList>>
    ELSE UNCHANGED registryVars

\* getDevice(deviceAddress): the DeviceInfo, or the error it reverts with.
getDevice(deviceAddress) ==
    IF deviceAddress \notin isRegistered THEN [error |-> "DeviceNotFound"]
    ELSE devices[deviceAddress]

\* An active check that only looks at the registration.
isDeviceActiveRegisteredOnly(deviceAddress) == deviceAddress \in isRegistered

isDeviceActive(deviceAddress) ==
    deviceAddress \in isRegistered /\ devices[deviceAddress].active

(* ------------------------------ AgriSensorData ----------------------- *)
\* AccessControl.hasRole with every account holding every role.
hasRoleAnyone(role, account) == TRUE

\* AccessControl.hasRole
hasRole(role, account) == account \in roleMembers[role]

\* grantRole and revokeRole: onlyRole(getRoleAdmin(role)), and the admin of
\* every role is DEFAULT_ADMIN_ROLE.
RoleAdminError(caller) ==
    IF ~hasRole("DEFAULT_ADMIN_ROLE", caller)
    THEN "AccessControlUnauthorizedAccount" ELSE "ok"

grantRole(caller, role, account) ==
    IF RoleAdminError(caller) = "ok"
    THEN roleMembers' = [roleMembers EXCEPT ![role] = @ \cup {account}]
    ELSE UNCHANGED roleMembers

revokeRole(caller, role, account) ==
    IF RoleAdminError(caller) = "ok"
    THEN roleMembers' = [roleMembers EXCEPT ![role] = @ \ {account}]
    ELSE UNCHANGED roleMembers

\* keccak256(abi.encodePacked(...)) of submitSensorData (90 bytes) and of
\* submitBatch (122 bytes, with the index): a collision-free digest stands for
\* its preimage.
SingleHash(timestamp, sender, farmId, temperature, soilMoisture, humidity) ==
    <<timestamp, sender, farmId, temperature, soilMoisture, humidity>>

BatchHash(timestamp, sender, farmId, temperature, soilMoisture, humidity, i) ==
    <<timestamp, sender, farmId, temperature, soilMoisture, humidity, i>>

SensorReading(sender, farmId, temperature, soilMoisture, humidity, hash) ==
    [timestamp |-> clock, deviceId |-> sender, farmId |-> farmId,
     temperature |-> temperature, soilMoisture |-> soilMoisture,
     humidity |-> humidity, dataHash |-> hash]

\* The checks of submitSensorData without the one on dataHashes.
SubmitSensorDataErrorNoDuplicateCheck(caller, farmId, temperature, soilMoisture, humidity) ==
    IF ~hasRole("DEVICE_ROLE", caller) THEN "AccessControlUnauthorizedAccount"
    ELSE IF soilMoisture > 1000 \/ humidity > 1000 THEN "InvalidSensorData"
    ELSE "ok"

\* The revert reason of submitSensorData, or "ok".
SubmitSensorDataError(caller, farmId, temperature, soilMoisture, humidity) ==
    IF ~hasRole("DEVICE_ROLE", caller) THEN "AccessControlUnauthorizedAccount"
    ELSE IF soilMoisture > 1000 \/ humidity > 1000 THEN "InvalidSensorData"
    ELSE IF SingleHash(clock, caller, farmId, temperature, soilMoisture, humidity)
                \in dataHashes
         THEN "DuplicateDataHash"
    ELSE "ok"

submitSensorData(caller, farmId, temperature, soilMoisture, humidity) ==
    LET hash == SingleHash(clock, caller, farmId, temperature, soilMoisture, humidity)
    IN  IF SubmitSensorDataError(caller, farmId, temperature, soilMoisture, humidity) = "ok"
        THEN /\ dataHashes' = dataHashes \cup {hash}
             /\ agriReadings' = Append(agriReadings,
                    SensorReading(caller, farmId, temperature, soilMoisture,
                                  humidity, hash))
             /\ UNCHANGED roleMembers
        ELSE UNCHANGED agriVars

\* The loop of submitBatch from index i (counted from 0) with the readings and
\* hashes written so far: the state it ends in, or the reason it reverts with.
RECURSIVE BatchLoop(_, _, _, _, _, _, _, _)
BatchLoop(caller, farmIds, temperatures, moistures, humidities, i, stored, hashes) ==
    IF i >= Len(farmIds)
    THEN [error |-> "ok", readings |-> stored, hashes |-> hashes]
    ELSE IF moistures[i + 1] > 1000 \/ humidities[i + 1] > 1000
    THEN [error |-> "InvalidSensorData", readings |-> stored, hashes |-> hashes]
    ELSE LET hash == BatchHash(clock, caller, farmIds[i + 1], temperatures[i + 1],
                               moistures[i + 1], humidities[i + 1], i)
         IN  IF hash \in hashes
             THEN [error |-> "DuplicateDataHash", readings |-> stored, hashes |-> hashes]
             ELSE BatchLoop(caller, farmIds, temperatures, moistures, humidities,
                            i + 1,
                            Append(stored,
                                SensorReading(caller, farmIds[i + 1],
                                    temperatures[i + 1], moistures[i + 1],
                                    humidities[i + 1], hash)),
                            hashes \cup {hash})

\* The revert reason of submitBatch, or "ok".
SubmitBatchError(caller, farmIds, temperatures, moistures, humidities) ==
    IF ~hasRole("DEVICE_ROLE", caller) THEN "AccessControlUnauthorizedAccount"
    ELSE IF \/ Len(farmIds) # Len(temperatures)
            \/ Len(farmIds) # Len(moistures)
            \/ Len(farmIds) # Len(humidities)
         THEN "ArrayLengthMismatch"
    ELSE BatchLoop(caller, farmIds, temperatures, moistures, humidities, 0,
                   agriReadings, dataHashes).error

\* A submitBatch that keeps the writes made before the element it fails on.
submitBatchKeepsPrefix(caller, farmIds, temperatures, moistures, humidities) ==
    IF SubmitBatchError(caller, farmIds, temperatures, moistures, humidities)
          \in {"ok", "InvalidSensorData", "DuplicateDataHash"}
    THEN LET end == BatchLoop(caller, farmIds, temperatures, moistures, humidities,
                              0, agriReadings, dataHashes)
         IN  /\ agriReadings' = end.readings
             /\ dataHashes' = end.hashes
             /\ UNCHANGED roleMembers
    ELSE UNCHANGED agriVars

\* A revert undoes the writes of the elements before the failing one.
submitBatch(caller, farmIds, temperatures, moistures, humidities) ==
    IF SubmitBatchError(caller, farmIds, temperatures, moistures, humidities) = "ok"
    THEN LET end == BatchLoop(caller, farmIds, temperatures, moistures, humidities,
                              0, agriReadings, dataHashes)
         IN  /\ agriReadings' = end.readings
             /\ dataHashes' = end.hashes
             /\ UNCHANGED roleMembers
    ELSE UNCHANGED agriVars

getTotalReadings == Len(agriReadings)

(* ------------------------------ content store ------------------------- *)
\* The position of document doc in store, 0 when it is not there.
IndexOf(store, doc) ==
    IF \E k \in 1 .. Len(store) : store[k] = doc
    THEN CHOOSE k \in 1 .. Len(store) : store[k] = doc
    ELSE 0

\* ipfs.add: content addressed, the same bytes get the same address.
Put(store, doc) == IF IndexOf(store, doc) = 0 THEN Append(store, doc) ELSE store

CidOf(store, doc) == IF IndexOf(store, doc) = 0 THEN Len(store) + 1 ELSE IndexOf(store, doc)

\* keccak256(toHex(cid)): a collision-free digest, never the zero word.
Keccak(cid) == cid + 1

(* ------------------------------ server.js ----------------------------- *)
Temps == {1, 5, 9}

\* A checkBreach whose comparisons take the limits themselves as breaches.
checkBreachExclusive(reading) ==
    IF reading.temp <= TEMP_MIN THEN "TEMP_LOW"
    ELSE IF reading.temp >= TEMP_MAX THEN "TEMP_HIGH"
    ELSE "none"

\* A checkBreach that only knows the lower limit.
checkBreachLowOnly(reading) ==
    IF reading.temp < TEMP_MIN THEN "TEMP_LOW" ELSE "none"

\* checkBreach(reading): the breach type, or "none".
checkBreach(reading) ==
    IF reading.temp < TEMP_MIN THEN "TEMP_LOW"
    ELSE IF reading.temp > TEMP_MAX THEN "TEMP_HIGH"
    ELSE "none"

\* The shape of a request body: what each field of the reading is. A field is
\* a JSON number, a JSON string, or is not there; the signature is a
\* well-formed signature, another string, or is not there.
FieldKinds == {"number", "string", "undefined"}
SigKinds == {"hex", "garbage", "undefined"}
Shapes == [t : FieldKinds, temp : FieldKinds, hum : FieldKinds, sig : SigKinds]

WellFormed == [t |-> "number", temp |-> "number", hum |-> "number", sig |-> "hex"]

\* The shapes the devices of the pipeline send: a reading, and one that lacks
\* its signature.
IngestShapes == {WellFormed, [WellFormed EXCEPT !.sig = "undefined"]}

\* validateReading(reading)
validateReading(shape) ==
    IF \/ shape.t = "undefined" \/ shape.temp = "undefined"
       \/ shape.hum = "undefined" \/ shape.sig = "undefined"
    THEN FALSE
    ELSE IF shape.temp # "number" \/ shape.hum # "number"
    THEN FALSE
    ELSE TRUE

\* verifySignature(reading, deviceAddress): the recovered signer is the device;
\* false when recoverMessageAddress throws.
verifySignature(shape, signer, deviceAddress) ==
    IF shape.sig # "hex" THEN FALSE ELSE signer = deviceAddress

\* checkDeviceActive(deviceAddress): the registry's answer, false when the read
\* throws.
checkDeviceActive(rpcOk, deviceAddress) ==
    IF rpcOk THEN isDeviceActive(deviceAddress) ELSE FALSE

NoDoc ==
    [device |-> NullAddr, windowStart |-> 0, windowEnd |-> 0, count |-> 0,
     readings |-> << >>, timestamp |-> 0, sig |-> << >>]

NoReport ==
    [device |-> NullAddr, timestamp |-> 0, temp |-> 0, breachType |-> "none",
     traceTokenId |-> 0, batchCID |-> 0, detectedAt |-> 0]

IdlePass ==
    [pc |-> "idle", now |-> 0, entries |-> << >>, traceTokenId |-> 0,
     count |-> 0, signed |-> << >>, doc |-> NoDoc, cid |-> 0, j |-> 0,
     report |-> NoReport]

NoIngest == [status |-> 0, deviceId |-> NullAddr]

NoEvaluation == [reading |-> [t |-> 0, temp |-> 0, hum |-> 0], result |-> "unset"]

(* A queue array is a JavaScript object that processBatches holds by         *)
(* reference. An entry of a pass is live while its array is still the one    *)
(* readingsQueue[device] names: its content is then readingsQueue[device],   *)
(* pushes included. When a pass assigns readingsQueue[device] = [], the old  *)
(* array is never written again, and every entry that names it keeps its     *)
(* final content in items.                                                   *)
ReadingsOf(entry, queue) == IF entry.live THEN queue[entry.device] ELSE entry.items

\* Object.entries(readingsQueue): the keys in insertion order, each with its array.
ObjectEntries ==
    [k \in 1 .. Len(queueKeys) |->
        [device |-> queueKeys[k], live |-> TRUE, items |-> << >>]]

\* A loop without the check for an empty array.
SkipNothing(entries, queue) == entries

\* if (readings.length === 0) continue;
RECURSIVE SkipEmpty(_, _)
SkipEmpty(entries, queue) ==
    IF entries = << >> THEN << >>
    ELSE IF Len(ReadingsOf(Head(entries), queue)) = 0
         THEN SkipEmpty(Tail(entries), queue)
         ELSE entries

\* The loop reaches the entries that remain: it calls getDevice for the first
\* one whose array is not empty, or the pass ends.
NextEntry(ps, entries, queue) ==
    LET rest == SkipEmpty(entries, queue)
    IN  IF rest = << >>
        THEN [IdlePass EXCEPT !.pc = "done"]
        ELSE [IdlePass EXCEPT !.pc = "getDevice", !.now = ps.now, !.entries = rest]

\* The entry a pass is working on.
PassDevice(ps) == Head(ps.entries).device
PassReadings(ps) == ReadingsOf(Head(ps.entries), readingsQueue)

\* for (const reading of readings): the first breaching reading at or after
\* position from of the array as it is now, 0 when there is none.
FirstBreach(readings, from) ==
    IF \E k \in from .. Len(readings) : checkBreach(readings[k]) # "none"
    THEN CHOOSE k \in from .. Len(readings) :
            /\ checkBreach(readings[k]) # "none"
            /\ \A m \in from .. (k - 1) : checkBreach(readings[m]) = "none"
    ELSE 0

BreachReport(ps, reading) ==
    [device |-> PassDevice(ps), timestamp |-> reading.t, temp |-> reading.temp,
     breachType |-> checkBreach(reading), traceTokenId |-> ps.traceTokenId,
     batchCID |-> ps.cid, detectedAt |-> clock]

\* The batchId argument handleBreach passes to mint.
MintBatchId(ps) == 0

(* ------------------------------ initial state ------------------------- *)
\* AgriSensorData after its constructor: the deployer holds every role.
AgriRoles == {"DEFAULT_ADMIN_ROLE", "DEVICE_ROLE"}

AgriDeployed ==
    /\ agriReadings = << >>
    /\ dataHashes = {}
    /\ roleMembers = [r \in AgriRoles |-> {Operator}]

LedgerInit ==
    /\ batches = << >>
    /\ deviceToBatches = [d \in Devices |-> << >>]
    /\ cidHashToBatch = EmptyMapping
    /\ committedHashes = {}
    /\ nextId = 0
    /\ breaches = << >>
    /\ deviceToBreaches = [d \in Devices |-> << >>]
    /\ productToBreaches = [p \in Products |-> << >>]
    /\ batchToBreachToken = EmptyMapping
    /\ lastCall = [fn |-> "none", caller |-> NullAddr, args |-> << >>,
                   result |-> "ok", ret |-> 0]
    /\ AgriDeployed

\* The registry as deployed, before any addDevice.
EmptyRegistry ==
    /\ isRegistered = {}
    /\ devices = [d \in Devices |-> NoDevice]
    /\ deviceList = << >>

\* The registry the server runs against: d1 and d2 were added by the operator.
ProvisionedRegistry ==
    /\ isRegistered = Provisioned
    /\ devices = [d \in Devices |->
                    IF d \in Provisioned
                    THEN [owner |-> Operator, metadataCID |-> <<"ipfs", 1>>,
                          traceTokenId |-> 1, registeredAt |-> 0, active |-> TRUE]
                    ELSE NoDevice]
    /\ deviceList = <<"d1", "d2">>

ServerState0 ==
    /\ clock = Clock0
    /\ pinned = << >>
    /\ reports = << >>
    /\ readingsQueue = [d \in Devices |-> << >>]
    /\ queueKeys = << >>
    /\ batchHistory = << >>
    /\ passes = [p \in 1 .. MaxPasses |-> IdlePass]
    /\ ingest = NoIngest
    /\ accepted = {}
    /\ evaluation = NoEvaluation
    /\ faults = 0

ServerInit == ProvisionedRegistry /\ ServerState0

\* BATCH_INTERVAL = Number(process.env.BATCH_INTERVAL) || 60000: the default,
\* and the values an operator may set instead.
DefaultConfig == [batchInterval |-> BATCH_INTERVAL]
Configs == [batchInterval : {BATCH_INTERVAL, 2 * BATCH_INTERVAL}]

Init == LedgerInit /\ ServerInit /\ config = DefaultConfig

\* The server started with any of the configurations.
ConfigInit == LedgerInit /\ ServerInit /\ config \in Configs

(* ------------------------------ the registry admin -------------------- *)
DeactivateDevice ==
    /\ \E d \in {"d1"} : devices[d].active /\ deactivateDevice(Operator, d)
    /\ UNCHANGED <<ledgerVars, lastCall, clock, storeVars, serverVars, agriVars, faults>>

ReactivateDevice ==
    /\ \E d \in isRegistered : ~devices[d].active /\ reactivateDevice(Operator, d)
    /\ UNCHANGED <<ledgerVars, lastCall, clock, storeVars, serverVars, agriVars, faults>>

(* ------------------------------ POST /ingest -------------------------- *)
\* The HTTP status the handler answers with: the checks in the order of the code.
IngestStatus(shape, signer, deviceId, isActive) ==
    IF ~validateReading(shape) THEN 400
    ELSE IF ~verifySignature(shape, signer, deviceId) THEN 401
    ELSE IF ~isActive THEN 403
    ELSE 200

\* readingsQueue[deviceId].push(reading), creating the array on first use.
Enqueue(deviceId, reading) ==
    /\ readingsQueue' = [readingsQueue EXCEPT ![deviceId] = Append(@, reading)]
    /\ queueKeys' = IF \E k \in 1 .. Len(queueKeys) : queueKeys[k] = deviceId
                    THEN queueKeys
                    ELSE Append(queueKeys, deviceId)

\* One request, from its arrival to its response. The handler awaits
\* verifySignature and checkDeviceActive (false when the read fails) before the
\* push; neither await reads or writes server state, so the handler is one step
\* taken at the moment the registry answers.
IngestWith(shapes) ==
    /\ Cardinality(accepted) < MaxReadings
    /\ \E deviceId \in Devices, signer \in Devices,
          shape \in shapes, rpcOk \in BOOLEAN :
          LET isActive == checkDeviceActive(rpcOk, deviceId)
              status == IngestStatus(shape, signer, deviceId, isActive)
          IN  /\ ingest' = [status |-> status, deviceId |-> deviceId]
              /\ IF status = 200
                 THEN \E temp \in Temps :
                      LET reading == [t |-> Cardinality(accepted) + 1, temp |-> temp]
                      IN  /\ Enqueue(deviceId, reading)
                          /\ accepted' = accepted \cup
                                {[reading |-> reading, deviceId |-> deviceId,
                                  signer |-> signer, shape |-> shape,
                                  isActive |-> isActive]}
                 ELSE UNCHANGED <<queueVars, accepted>>
    /\ UNCHANGED <<ledgerVars, lastCall, registryVars, clock, storeVars,
                   batchHistory, passes, evaluation, config,
                       agriVars, faults>>

\* The requests of the devices of the pipeline.
Ingest == IngestWith(IngestShapes)

\* Requests with a body of any shape.
IngestAny == IngestWith(Shapes)

(* ------------------------------ processBatches ------------------------ *)
\* processBatches() is called at time now: the window and Object.entries are
\* taken, and the loop runs to its first await.
StartPass(p, now) ==
    /\ passes[p].pc = "idle"
    /\ \A q \in 1 .. (p - 1) : passes[q].pc # "idle"
    /\ passes' = [passes EXCEPT ![p] =
          NextEntry([IdlePass EXCEPT !.now = now], ObjectEntries, readingsQueue)]
    /\ UNCHANGED <<ledgerVars, lastCall, registryVars, storeVars,
                   queueVars, batchHistory, ingest, accepted, evaluation, config,
                       agriVars, faults>>

\* setInterval(() => processBatches(), BATCH_INTERVAL) fires: another interval
\* has gone by.
TimerTick ==
    /\ clock' = clock + config.batchInterval
    /\ \E p \in 1 .. MaxPasses : StartPass(p, clock + config.batchInterval)

\* POST /batch
ManualBatch ==
    /\ UNCHANGED clock
    /\ \E p \in 1 .. MaxPasses : StartPass(p, clock)

\* A call to the store, the RPC node or the ledger fails (ok = FALSE) or not.
Outcome(ok) ==
    IF ok THEN UNCHANGED faults
    ELSE faults < MaxFaults /\ faults' = faults + 1

\* A catch around the whole loop instead of around its body: the pass ends.
CatchAndStop(p) ==
    passes' = [passes EXCEPT ![p] = [IdlePass EXCEPT !.pc = "done"]]

\* The catch block of the loop body: log, go on with the next entry.
CatchAndContinue(p) ==
    passes' = [passes EXCEPT ![p] =
        NextEntry(passes[p], Tail(passes[p].entries), readingsQueue)]

\* await readContract(getDevice) returns; batchData is built and its JSON signed.
GetDeviceReturn(p) ==
    LET ps == passes[p]
    IN  /\ ps.pc = "getDevice"
        /\ \E rpcOk \in BOOLEAN :
              /\ Outcome(rpcOk)
              /\ IF rpcOk /\ PassDevice(ps) \in isRegistered
                 THEN passes' = [passes EXCEPT ![p] =
                       [ps EXCEPT !.pc = "sign",
                                  !.traceTokenId = devices[PassDevice(ps)].traceTokenId,
                                  !.count = Len(PassReadings(ps)),
                                  !.signed = PassReadings(ps)]]
                 ELSE CatchAndContinue(p)
        /\ UNCHANGED <<ledgerVars, lastCall, registryVars, clock, storeVars,
                       queueVars, batchHistory, ingest, accepted, evaluation, config,
                       agriVars>>

\* The document pinToIPFS serialises: batchData as it is after signing.
BatchDocument(ps, readings) ==
    [device |-> PassDevice(ps), windowStart |-> ps.now - WINDOW_SECONDS,
     windowEnd |-> ps.now, count |-> ps.count, readings |-> readings,
     timestamp |-> ps.now, sig |-> ps.signed]

\* await signMessage returns; pinToIPFS(batchData) serialises and calls ipfs.add.
SignReturn(p) ==
    LET ps == passes[p]
    IN  /\ ps.pc = "sign"
        /\ passes' = [passes EXCEPT ![p] =
              [ps EXCEPT !.pc = "pin", !.doc = BatchDocument(ps, PassReadings(ps))]]
        /\ UNCHANGED <<ledgerVars, lastCall, registryVars, clock, storeVars,
                       queueVars, batchHistory, ingest, accepted, evaluation, config,
                       agriVars, faults>>

\* await pinToIPFS returns or throws; on success commitBatch is sent.
PinReturn(p) ==
    LET ps == passes[p]
    IN  /\ ps.pc = "pin"
        /\ \E ok \in BOOLEAN :
              /\ Outcome(ok)
              /\ IF ok
                 THEN /\ pinned' = Put(pinned, ps.doc)
                      /\ passes' = [passes EXCEPT ![p] =
                            [ps EXCEPT !.pc = "commit", !.cid = CidOf(pinned, ps.doc)]]
                 ELSE /\ CatchAndContinue(p)
                      /\ UNCHANGED pinned
        /\ UNCHANGED <<ledgerVars, lastCall, registryVars, clock, reports,
                       queueVars, batchHistory, ingest, accepted, evaluation, config,
                       agriVars>>

\* readingsQueue[deviceAddress] = []: the device gets a new array; the entries
\* of the other passes that name the old one keep its content.
Detach(ps, device) ==
    [ps EXCEPT !.entries =
        [k \in 1 .. Len(ps.entries) |->
            IF ps.entries[k].device = device /\ ps.entries[k].live
            THEN [device |-> device, live |-> FALSE, items |-> readingsQueue[device]]
            ELSE ps.entries[k]]]

\* The breach loop from position from of the array as it is now, up to its next
\* await: either handleBreach is called, or the loop ends, the queue is
\* cleared and the pass goes on with the next entry.
BreachLoop(p, ps, from) ==
    LET readings == PassReadings(ps)
        j == FirstBreach(readings, from)
    IN  IF j # 0
        THEN /\ passes' = [passes EXCEPT ![p] =
                   [ps EXCEPT !.pc = "handleBreach", !.j = j,
                              !.report = BreachReport(ps, readings[j])]]
             /\ UNCHANGED queueVars
        ELSE /\ readingsQueue' = [readingsQueue EXCEPT ![PassDevice(ps)] = << >>]
             /\ passes' = [q \in 1 .. MaxPasses |->
                   IF q = p
                   THEN NextEntry(ps, Tail(ps.entries), readingsQueue)
                   ELSE Detach(passes[q], PassDevice(ps))]
             /\ UNCHANGED queueKeys

\* Whether the pass goes on to batchHistory.push and the breach loop after
\* writeContract and waitForTransactionReceipt: it does unless one of them threw.
ProceedsAfterCommit(outcome) == outcome # "throw"

HistoryEntry(ps) ==
    [device |-> PassDevice(ps), cid |-> ps.cid, cidHash |-> Keccak(ps.cid),
     windowStart |-> ps.now - WINDOW_SECONDS, windowEnd |-> ps.now,
     count |-> Len(PassReadings(ps)), timestamp |-> ps.now]

\* The parameter types the server encodes its commitBatch call with, and the
\* ones DataAnchor.commitBatch declares.
DATA_ANCHOR_ABI == <<"address", "string", "uint64", "uint64">>
CommitBatchParams == <<"address", "bytes32", "uint64", "uint64">>

\* The contract runs the function whose name and parameter types the selector
\* of the call data was computed from; it has no fallback function, so a
\* call with any other selector is mined and reverts.
Dispatches(abi) == abi = CommitBatchParams

\* What writeContract(commitBatch) and waitForTransactionReceipt return: a
\* call threw, or the transaction was mined and its receipt is returned,
\* reverted or applied. The gas limit is given, so nothing is simulated
\* before the transaction is sent.
CommitOutcomes ==
    {"throw", "reverted"}
        \cup (IF Dispatches(DATA_ANCHOR_ABI) THEN {"applied"} ELSE {})

\* await writeContract(commitBatch) and waitForTransactionReceipt return; the
\* status of the receipt is not looked at.
CommitReturn(p) ==
    LET ps == passes[p]
    IN  /\ ps.pc = "commit"
        /\ \E outcome \in CommitOutcomes :
              /\ Outcome(outcome # "throw")
              /\ IF outcome = "applied"
                 THEN /\ Len(batches) < MaxBatches
                      /\ commitBatch(Operator, PassDevice(ps), Keccak(ps.cid),
                                     ps.now - WINDOW_SECONDS, ps.now)
                 ELSE UNCHANGED anchorVars
              /\ IF ProceedsAfterCommit(outcome)
                 THEN /\ batchHistory' = Append(batchHistory, HistoryEntry(ps))
                      /\ BreachLoop(p, ps, 1)
                 ELSE /\ CatchAndContinue(p)
                      /\ UNCHANGED <<batchHistory, queueVars>>
        /\ UNCHANGED <<nftVars, lastCall, registryVars, clock, storeVars, ingest,
                       accepted, evaluation, config,
                       agriVars>>

\* A handleBreach without its try/catch: what the report pin or the mint throws
\* reaches the catch of the sealing loop, which goes on with the next device.
HandleBreachReturnAbort(p) ==
    LET ps == passes[p]
    IN  /\ ps.pc = "handleBreach"
        /\ \E outcome \in {"pinFailed", "mintFailed", "minted"} :
              /\ Outcome(outcome = "minted")
              /\ reports' = IF outcome = "pinFailed" THEN reports
                            ELSE Put(reports, ps.report)
              /\ IF outcome = "minted"
                 THEN /\ nextId < MaxBreaches
                      /\ mint(Operator, Operator, PassDevice(ps), ps.traceTokenId,
                              MintBatchId(ps), ps.report.breachType,
                              <<"ipfs", CidOf(reports, ps.report)>>)
                      /\ BreachLoop(p, ps, ps.j + 1)
                 ELSE /\ UNCHANGED <<nftVars, queueVars>>
                      /\ CatchAndContinue(p)
        /\ UNCHANGED <<anchorVars, lastCall, registryVars, clock, pinned,
                       batchHistory, ingest, accepted, evaluation, config,
                       agriVars>>

\* handleBreach, from its call to its return. It awaits pinToIPFS(report), then
\* writeContract(mint) and waitForTransactionReceipt, and catches what they
\* throw; a reverted receipt is not looked at. Either the report pin fails, or
\* the report is pinned and the mint fails, or the token is minted; the breach
\* loop then goes on.
HandleBreachReturn(p) ==
    LET ps == passes[p]
    IN  /\ ps.pc = "handleBreach"
        /\ \E outcome \in {"pinFailed", "mintFailed", "minted"} :
              /\ Outcome(outcome = "minted")
              /\ reports' = IF outcome = "pinFailed" THEN reports
                            ELSE Put(reports, ps.report)
              /\ IF outcome = "minted"
                 THEN /\ nextId < MaxBreaches
                      /\ mint(Operator, Operator, PassDevice(ps), ps.traceTokenId,
                              MintBatchId(ps), ps.report.breachType,
                              <<"ipfs", CidOf(reports, ps.report)>>)
                 ELSE UNCHANGED nftVars
              /\ BreachLoop(p, ps, ps.j + 1)
        /\ UNCHANGED <<anchorVars, lastCall, registryVars, clock, pinned,
                       batchHistory, ingest, accepted, evaluation, config,
                       agriVars>>

PassStep ==
    \E p \in 1 .. MaxPasses :
        \/ GetDeviceReturn(p)
        \/ SignReturn(p)
        \/ PinReturn(p)
        \/ CommitReturn(p)
        \/ HandleBreachReturn(p)

Next ==
    \/ DeactivateDevice
    \/ ReactivateDevice
    \/ Ingest
    \/ TimerTick
    \/ ManualBatch
    \/ PassStep

Spec == Init /\ [][Next]_vars

\* The same system when no processBatches call starts while another is running
\* (the timer interval is longer than a pass and nobody posts /batch meanwhile).
InProgress(p) == passes[p].pc \notin {"idle", "done"}

NoPassInProgress == \A q \in 1 .. MaxPasses : ~InProgress(q)

SerialNext ==
    \/ DeactivateDevice
    \/ ReactivateDevice
    \/ Ingest
    \/ NoPassInProgress /\ TimerTick
    \/ NoPassInProgress /\ ManualBatch
    \/ PassStep

SerialSpec == Init /\ [][SerialNext]_vars

\* Serial passes under any configured sealing interval.
ConfigSpec == ConfigInit /\ [][SerialNext]_vars

\* Serial passes with a fair timer and awaits that return: setInterval keeps
\* firing while the process runs, and every awaited call settles. The number
\* of calls that throw is bounded, so the calls succeed from some point on.
FairSpec ==
    /\ Init
    /\ [][SerialNext]_vars
    /\ WF_vars(NoPassInProgress /\ TimerTick)
    /\ WF_vars(PassStep)

(* ------------- the ledger driven directly by arbitrary callers -------- *)
CallCommitBatchWith(hashes, max) ==
    /\ Len(batches) < max
    /\ \E caller \in Callers, device \in Addrs, cidHash \in hashes,
          windowStart \in WindowTimes, windowEnd \in WindowTimes :
          /\ commitBatch(caller, device, cidHash, windowStart, windowEnd)
          /\ lastCall' =
                [fn |-> "commitBatch", caller |-> caller,
                 args |-> <<device, cidHash, windowStart, windowEnd>>,
                 result |-> CommitBatchError(caller, device, cidHash,
                                             windowStart, windowEnd),
                 ret |-> CommitBatchId]
    /\ UNCHANGED <<nftVars, registryVars, clock, storeVars, serverVars, agriVars, faults>>

CallCommitBatch == CallCommitBatchWith(Hashes, MaxBatches)

CallMint ==
    /\ nextId < MaxBreaches
    /\ \E caller \in Callers, to \in {Operator, NullAddr}, device \in Addrs,
          traceTokenId \in Products, batchId \in BatchIds,
          breachType \in {"TEMP_HIGH"}, metadataURI \in Uris :
          /\ mint(caller, to, device, traceTokenId, batchId, breachType, metadataURI)
          /\ lastCall' =
                [fn |-> "mint", caller |-> caller,
                 args |-> <<to, device, traceTokenId, batchId, breachType,
                            metadataURI>>,
                 result |-> MintError(caller, to, device, metadataURI),
                 ret |-> nextId + 1]
    /\ UNCHANGED <<anchorVars, registryVars, clock, storeVars, serverVars, agriVars, faults>>

CallMarkResolved ==
    /\ \E caller \in Callers, tokenId \in 0 .. MaxBreaches :
          /\ markResolved(caller, tokenId)
          /\ lastCall' =
                [fn |-> "markResolved", caller |-> caller, args |-> <<tokenId>>,
                 result |-> MarkResolvedError(caller, tokenId), ret |-> 0]
    /\ UNCHANGED <<anchorVars, registryVars, clock, storeVars, serverVars, agriVars, faults>>

\* Blocks are mined: block.timestamp moves on between calls.
AdvanceTime ==
    /\ clock < Clock0 + MaxBlocks * BATCH_INTERVAL
    /\ clock' = clock + BATCH_INTERVAL
    /\ UNCHANGED <<ledgerVars, lastCall, registryVars, storeVars, serverVars, agriVars, faults>>

LedgerNext == CallCommitBatch \/ CallMint \/ CallMarkResolved \/ AdvanceTime

LedgerSpec == Init /\ [][LedgerNext]_vars

(* ------------- DataAnchor alone, with more hashes and commitments ----- *)
AnchorHashes == 0 .. 2

AnchorNext == CallCommitBatchWith(AnchorHashes, MaxAnchorBatches) \/ AdvanceTime

AnchorSpec == Init /\ [][AnchorNext]_vars

(* ------------- the registry driven directly by arbitrary callers ------ *)
RegistryInit == LedgerInit /\ EmptyRegistry /\ ServerState0 /\ config = DefaultConfig

CallAddDevice ==
    /\ \E caller \in Callers, deviceAddress \in Addrs, owner \in {Operator, NullAddr},
          metadataCID \in Uris, traceTokenId \in Products :
          /\ addDevice(caller, deviceAddress, owner, metadataCID, traceTokenId)
          /\ lastCall' =
                [fn |-> "addDevice", caller |-> caller,
                 args |-> <<deviceAddress, owner, metadataCID, traceTokenId>>,
                 result |-> AddDeviceError(caller, deviceAddress, owner, metadataCID),
                 ret |-> 0]
    /\ UNCHANGED <<ledgerVars, clock, storeVars, serverVars, agriVars, faults>>

CallDeactivateDevice ==
    /\ \E caller \in Callers, deviceAddress \in Provisioned :
          /\ deactivateDevice(caller, deviceAddress)
          /\ lastCall' =
                [fn |-> "deactivateDevice", caller |-> caller,
                 args |-> <<deviceAddress>>,
                 result |-> SetActiveError(caller, deviceAddress), ret |-> 0]
    /\ UNCHANGED <<ledgerVars, clock, storeVars, serverVars, agriVars, faults>>

CallReactivateDevice ==
    /\ \E caller \in Callers, deviceAddress \in Provisioned :
          /\ reactivateDevice(caller, deviceAddress)
          /\ lastCall' =
                [fn |-> "reactivateDevice", caller |-> caller,
                 args |-> <<deviceAddress>>,
                 result |-> SetActiveError(caller, deviceAddress), ret |-> 0]
    /\ UNCHANGED <<ledgerVars, clock, storeVars, serverVars, agriVars, faults>>

NewUris == Uris \cup {<<"ipfs", 2>>}

CallUpdateMetadata ==
    /\ \E caller \in Callers, deviceAddress \in Provisioned,
          newMetadataCID \in NewUris :
          /\ updateMetadata(caller, deviceAddress, newMetadataCID)
          /\ lastCall' =
                [fn |-> "updateMetadata", caller |-> caller,
                 args |-> <<deviceAddress, newMetadataCID>>,
                 result |-> UpdateMetadataError(caller, deviceAddress, newMetadataCID),
                 ret |-> 0]
    /\ UNCHANGED <<ledgerVars, clock, storeVars, serverVars, agriVars, faults>>

\* getDevice is a view: it changes nothing and reverts for an unknown address.
CallGetDevice ==
    /\ \E caller \in Callers, deviceAddress \in Provisioned :
          lastCall' =
              [fn |-> "getDevice", caller |-> caller, args |-> <<deviceAddress>>,
               result |-> IF "error" \in DOMAIN getDevice(deviceAddress)
                          THEN getDevice(deviceAddress).error ELSE "ok",
               ret |-> 0]
    /\ UNCHANGED <<ledgerVars, registryVars, clock, storeVars, serverVars, agriVars,
                   faults>>

RegistryNext ==
    \/ CallAddDevice
    \/ CallDeactivateDevice
    \/ CallReactivateDevice
    \/ CallUpdateMetadata
    \/ CallGetDevice
    \/ AdvanceTime

RegistrySpec == RegistryInit /\ [][RegistryNext]_vars

(* ------------- AgriSensorData driven directly by arbitrary callers ---- *)
AgriAccounts == {Operator, "d1", "eve"}
FarmIds == {1}
Temperatures == {250}
Moistures == {450, 1001}
Humidities == {600, 1001}

\* The arrays of at most MaxArray elements of S.
ArraysOf(S) == UNION {[1 .. n -> S] : n \in 0 .. MaxArray}

CallSubmitSensorData ==
    /\ Len(agriReadings) < MaxAgriReadings
    /\ \E caller \in AgriAccounts, farmId \in FarmIds, temperature \in Temperatures,
          soilMoisture \in Moistures, humidity \in Humidities :
          /\ submitSensorData(caller, farmId, temperature, soilMoisture, humidity)
          /\ lastCall' =
                [fn |-> "submitSensorData", caller |-> caller,
                 args |-> <<farmId, temperature, soilMoisture, humidity>>,
                 result |-> SubmitSensorDataError(caller, farmId, temperature,
                                                  soilMoisture, humidity),
                 ret |-> 0]
    /\ UNCHANGED <<ledgerVars, registryVars, clock, storeVars, serverVars, faults>>

CallSubmitBatch ==
    /\ \E caller \in AgriAccounts, farmIds \in ArraysOf(FarmIds),
          moistures \in ArraysOf(Moistures) :
          \E temperatures \in [1 .. Len(farmIds) -> Temperatures],
             humidities \in [1 .. Len(farmIds) -> Humidities] :
          /\ Len(agriReadings) + Len(farmIds) <= MaxAgriReadings
          /\ submitBatch(caller, farmIds, temperatures, moistures, humidities)
          /\ lastCall' =
                [fn |-> "submitBatch", caller |-> caller,
                 args |-> <<farmIds, temperatures, moistures, humidities>>,
                 result |-> SubmitBatchError(caller, farmIds, temperatures,
                                             moistures, humidities),
                 ret |-> 0]
    /\ UNCHANGED <<ledgerVars, registryVars, clock, storeVars, serverVars, faults>>

CallGrantRole ==
    /\ \E caller \in AgriAccounts, role \in {"DEVICE_ROLE"}, account \in {"d1", "eve"} :
          /\ grantRole(caller, role, account)
          /\ lastCall' =
                [fn |-> "grantRole", caller |-> caller, args |-> <<role, account>>,
                 result |-> RoleAdminError(caller), ret |-> 0]
    /\ UNCHANGED <<ledgerVars, registryVars, agriReadings, dataHashes, clock,
                   storeVars, serverVars, faults>>

CallRevokeRole ==
    /\ \E caller \in AgriAccounts, role \in {"DEVICE_ROLE"}, account \in {"d1", "eve"} :
          /\ revokeRole(caller, role, account)
          /\ lastCall' =
                [fn |-> "revokeRole", caller |-> caller, args |-> <<role, account>>,
                 result |-> RoleAdminError(caller), ret |-> 0]
    /\ UNCHANGED <<ledgerVars, registryVars, agriReadings, dataHashes, clock,
                   storeVars, serverVars, faults>>

AgriNext ==
    \/ CallSubmitSensorData
    \/ CallSubmitBatch
    \/ CallGrantRole
    \/ CallRevokeRole
    \/ AdvanceTime

AgriSpec == Init /\ [][AgriNext]_vars

(* ------------- POST /ingest with request bodies of any shape ---------- *)
GateNext == IngestAny \/ DeactivateDevice \/ ReactivateDevice

GateSpec == Init /\ [][GateNext]_vars

(* ------------- checkBreach applied to arbitrary readings -------------- *)
\* The temperatures around and inside the envelope.
EvalTemps == (TEMP_MIN - TempMargin) .. (TEMP_MAX + TempMargin)

\* checkBreach(reading) is called on a validated reading (numeric temp and hum).
Evaluate ==
    /\ \E temp \in EvalTemps, hum \in {40, 60} :
          LET reading == [t |-> 1, temp |-> temp, hum |-> hum]
          IN  evaluation' = [reading |-> reading, result |-> checkBreach(reading)]
    /\ UNCHANGED <<ledgerVars, lastCall, registryVars, clock, storeVars, queueVars,
                   batchHistory, passes, ingest, accepted, config,
                   agriVars, faults>>

EvalNext == Ingest \/ Evaluate

EvalSpec == Init /\ [][EvalNext]_vars

(* ====================================================================== *)
(*                               The claims                               *)
(* ====================================================================== *)

\* The readings of the batch documents in the content store, and the breach
\* records of a reading (through the report its metadataURI names).
SealedIn(k) == {pinned[k].readings[n] : n \in 1 .. Len(pinned[k].readings)}
ReportOf(record) == reports[record.metadataURI[2]]
QueuedReadings(d) == {readingsQueue[d][n] : n \in 1 .. Len(readingsQueue[d])}

(* C1: no two stored commitments share a contentHash (a second commit of a   *)
(* committed hash fails), and the lookup by hash still returns the id the    *)
(* first commit assigned.                                                    *)
C1_DuplicateCommitRejected ==
    \A i, j \in 1 .. Len(batches) :
        batches[i].cidHash = batches[j].cidHash =>
            /\ i = j
            /\ verifyCIDHash(batches[i].cidHash) = <<TRUE, i - 1>>

(* C2: an accepted reading is never lost: it is still in its device's queue  *)
(* or it is in a batch document that was pinned. A reading pushed after the  *)
(* pass serialised the batch must therefore survive the pass in the queue.   *)
C2_EnqueuedDuringPassNotLost ==
    \A a \in accepted :
        \/ a.reading \in QueuedReadings(a.deviceId)
        \/ \E k \in 1 .. Len(pinned) : a.reading \in SealedIn(k)

(* C3: no accepted reading is contained in two different sealed batches.     *)
C3_SealedAtMostOnce ==
    \A a \in accepted :
        Cardinality({k \in 1 .. Len(pinned) : a.reading \in SealedIn(k)}) <= 1

(* C4: every breach record carries a batchRef that identifies the commitment *)
(* of the batch it was minted for: the sequenceId commitBatch assigned to    *)
(* the commitment of that batch's content address.                           *)
C4_BatchRefIsSequenceId ==
    \A k \in 1 .. Len(breaches) :
        \E i \in 1 .. Len(batches) :
            /\ batches[i].cidHash = Keccak(ReportOf(breaches[k]).batchCID)
            /\ breaches[k].batchId = i - 1

(* C5: a breach record exists only for a batch whose commitBatch transaction *)
(* was applied: the commitment of the batch it was minted for is stored.     *)
C5_MintOnlyAfterCommit ==
    \A k \in 1 .. Len(breaches) :
        \E i \in 1 .. Len(batches) :
            batches[i].cidHash = Keccak(ReportOf(breaches[k]).batchCID)

(* C6: for any accepted reading at most one breach record is ever minted.    *)
C6_AtMostOneBreachPerReading ==
    \A a \in accepted :
        Cardinality({k \in 1 .. Len(breaches) :
                        /\ ReportOf(breaches[k]).timestamp = a.reading.t
                        /\ breaches[k].device = a.deviceId}) <= 1

(* C7: at most one sealing pass is in progress at any time.                  *)
C7_OnePassAtATime ==
    Cardinality({p \in 1 .. MaxPasses : InProgress(p)}) <= 1
\* A reading as the validator is to accept it: timestamp, temperature and
\* humidity are numbers and a signature is there.
WellFormedReading(shape) ==
    /\ shape.t = "number" /\ shape.temp = "number" /\ shape.hum = "number"
    /\ shape.sig # "undefined"

(* C8: a reading is appended to a device's queue only by an ingest request  *)
(* that is well-formed, signed by the claimed device and for a device the    *)
(* registry reports active; a rejected request leaves every queue unchanged. *)
C8_OnlyValidReadingsQueued ==
    [][ /\ \A d \in Devices :
              Len(readingsQueue'[d]) > Len(readingsQueue[d]) =>
                  /\ ingest'.status = 200
                  /\ \E a \in accepted' \ accepted :
                        /\ a.deviceId = d
                        /\ WellFormedReading(a.shape)
                        /\ a.signer = d
                        /\ a.isActive
                        /\ isDeviceActive(d)
                        /\ readingsQueue'[d] = Append(readingsQueue[d], a.reading)
        /\ (ingest' # ingest /\ ingest'.status # 200) => UNCHANGED queueVars
      ]_vars

(* C9: a commitBatch call by the operator fails with InvalidDevice when the  *)
(* device is the null address, with InvalidCIDHash when the hash is zero,    *)
(* with InvalidTimeWindow when windowEnd <= windowStart (the first check     *)
(* that fails, in this order, names the error); a failed call leaves the     *)
(* commitments, the per-device index and the hash lookup unchanged.          *)
C9_InvalidCommitRejected ==
    /\ [](lastCall.fn = "commitBatch" /\ lastCall.caller = Operator =>
            LET device == lastCall.args[1]
                cidHash == lastCall.args[2]
                windowStart == lastCall.args[3]
                windowEnd == lastCall.args[4]
            IN  /\ device = NullAddr => lastCall.result = "InvalidDevice"
                /\ device # NullAddr /\ cidHash = ZeroHash =>
                        lastCall.result = "InvalidCIDHash"
                /\ device # NullAddr /\ cidHash # ZeroHash /\ windowEnd <= windowStart =>
                        lastCall.result = "InvalidTimeWindow")
    /\ [][ (lastCall' # lastCall /\ lastCall'.fn = "commitBatch"
                /\ lastCall'.result # "ok") => UNCHANGED anchorVars ]_vars

\* commitBatch with windowEnd == windowStart failed after a commitment was stored.
C9_Witness ==
    /\ lastCall.fn = "commitBatch"
    /\ lastCall.result = "InvalidTimeWindow"
    /\ lastCall.args[3] = lastCall.args[4]
    /\ Len(batches) = 1

(* C10: commitBatch and mint succeed only for the operator; a call by any    *)
(* other identity fails as unauthorized and changes no ledger state.         *)
C10_OnlyOperatorWrites ==
    /\ [](lastCall.fn \in {"commitBatch", "mint"} /\ lastCall.caller # Operator
            => lastCall.result = "Unauthorized")
    /\ [][ (lastCall' # lastCall /\ lastCall'.caller # Operator)
            => UNCHANGED ledgerVars ]_vars

\* A mint by another identity was refused on a ledger that holds records.
C10_Witness ==
    /\ lastCall.fn = "mint"
    /\ lastCall.caller # Operator
    /\ lastCall.result = "Unauthorized"
    /\ Len(batches) > 0
    /\ nextId > 0

(* C11: a successful commitBatch returns the number of commitments stored    *)
(* before the call, which is strictly greater than every id handed out       *)
(* before, and stores one commitment under that id; a failed call stores     *)
(* nothing, so the next success gets the id the failed call would have got.  *)
C11_SequenceIdsIncrease ==
    [][ (lastCall' # lastCall /\ lastCall'.fn = "commitBatch") =>
            IF lastCall'.result = "ok"
            THEN /\ lastCall'.ret = Len(batches)
                 /\ Len(batches') = Len(batches) + 1
                 /\ \A d \in Devices : \A k \in 1 .. Len(getBatchesByDevice(d)) :
                        getBatchesByDevice(d)[k] < lastCall'.ret
                 /\ \A d \in Devices : d = lastCall'.args[1] =>
                        getBatchesByDevice(d)' =
                            Append(getBatchesByDevice(d), lastCall'.ret)
            ELSE /\ Len(batches') = Len(batches)
                 /\ deviceToBatches' = deviceToBatches
      ]_vars

\* The second successful commitBatch returned id 1.
C11_Witness ==
    /\ lastCall.fn = "commitBatch"
    /\ lastCall.result = "ok"
    /\ lastCall.ret = 1
    /\ Len(batches) = 2

(* C12: a stored commitment is never mutated or removed: once getBatch(id)   *)
(* returns a commitment, every later step leaves getBatch(id) as it is       *)
(* (device, cidHash, windowStart, windowEnd and the commit timestamp).        *)
C12_CommitmentsImmutable ==
    [][ \A id \in 0 .. Len(batches) :
            getBatch(id) # [error |-> "BatchNotFound"] =>
                getBatch(id)' = getBatch(id) ]_vars

\* Commitment 0 was stored in an earlier block; since then the same hash was
\* committed again and a breach record was minted.
C12_Witness ==
    /\ Len(batches) = 2
    /\ batches[1].cidHash = batches[2].cidHash
    /\ batches[1].timestamp < batches[2].timestamp
    /\ getBatch(0) = batches[1]
    /\ nextId > 0

(* C13: a mint call by the operator fails with InvalidAddress when the       *)
(* recipient or the device is the null address and, otherwise, with          *)
(* InvalidTokenURI when the report location is empty; a failed mint leaves   *)
(* the id counter, the breach records and the indexes unchanged.             *)
C13_InvalidMintRejected ==
    /\ [](lastCall.fn = "mint" /\ lastCall.caller = Operator =>
            LET to == lastCall.args[1]
                device == lastCall.args[2]
                metadataURI == lastCall.args[6]
            IN  /\ (to = NullAddr \/ device = NullAddr) =>
                        lastCall.result = "InvalidAddress"
                /\ (to # NullAddr /\ device # NullAddr /\ metadataURI = EmptyString) =>
                        lastCall.result = "InvalidTokenURI")
    /\ [][ (lastCall' # lastCall /\ lastCall'.fn = "mint"
                /\ lastCall'.result # "ok") => UNCHANGED nftVars ]_vars

\* A mint for the null device to a real recipient failed on a ledger that
\* holds a breach record.
C13_Witness ==
    /\ lastCall.fn = "mint"
    /\ lastCall.caller = Operator
    /\ lastCall.args[1] # NullAddr
    /\ lastCall.args[2] = NullAddr
    /\ lastCall.result = "InvalidAddress"
    /\ nextId > 0

(* C14: breach ids are 1, 2, ... in mint order with no gap: the k-th record  *)
(* minted has id k, getTotalBreaches is the number of records, and           *)
(* getBreachInfo(i) succeeds exactly for 1 <= i <= getTotalBreaches (it      *)
(* fails with BreachNotFound for 0 and for ids above the total).             *)
C14_BreachIdsSequential ==
    /\ getTotalBreaches = Len(breaches)
    /\ \A k \in 1 .. Len(breaches) : breaches[k].tokenId = k
    /\ \A i \in 0 .. (Len(breaches) + 1) :
          (getBreachInfo(i) # [error |-> "BreachNotFound"])
              <=> (1 <= i /\ i <= getTotalBreaches)
    /\ (lastCall.fn = "mint" /\ lastCall.result = "ok") =>
          /\ lastCall.ret = getTotalBreaches
          /\ getBreachInfo(lastCall.ret).tokenId = lastCall.ret

\* Two mints succeeded.
C14_Witness ==
    /\ getTotalBreaches = 2
    /\ lastCall.fn = "mint"
    /\ lastCall.result = "ok"
    /\ lastCall.ret = 2

(* C15: the breach indexes agree with the records: getBreachesByDevice(d)    *)
(* is the increasing list of the ids whose record has device d, and          *)
(* getBreachesByProduct(p) the increasing list of the ids whose record has   *)
(* traceTokenId p.                                                           *)
C15_BreachIndexesConsistent ==
    LET ids == [k \in 1 .. getTotalBreaches |-> k]
        IdsOfDevice(d) ==
            LET Test(id) == getBreachInfo(id).device = d IN SelectSeq(ids, Test)
        IdsOfProduct(p) ==
            LET Test(id) == getBreachInfo(id).traceTokenId = p IN SelectSeq(ids, Test)
    IN  /\ \A d \in Devices : getBreachesByDevice(d) = IdsOfDevice(d)
        /\ \A p \in Products : getBreachesByProduct(p) = IdsOfProduct(p)

\* Two records of different devices and different products are indexed.
C15_Witness ==
    /\ getTotalBreaches = 2
    /\ getBreachInfo(1).device # getBreachInfo(2).device
    /\ getBreachInfo(1).traceTokenId # getBreachInfo(2).traceTokenId
    /\ getBreachesByDevice(getBreachInfo(2).device) = <<2>>
    /\ getBreachesByProduct(getBreachInfo(1).traceTokenId) = <<1>>

(* C16: mint does not deduplicate: every successful mint, also one whose     *)
(* device, product, batch, breach type and report location equal those of a  *)
(* stored record, adds a record under a new id, keeps every stored record    *)
(* retrievable by its id, and appends the new id to the device index and to  *)
(* the product index.                                                        *)
C16_MintDoesNotDeduplicate ==
    [][ (lastCall' # lastCall /\ lastCall'.fn = "mint" /\ lastCall'.result = "ok") =>
            /\ getTotalBreaches' = getTotalBreaches + 1
            /\ \A id \in 1 .. getTotalBreaches : getBreachInfo(id)' = getBreachInfo(id)
            /\ \A d \in Devices : d = lastCall'.args[2] =>
                    getBreachesByDevice(d)' =
                        Append(getBreachesByDevice(d), getTotalBreaches + 1)
            /\ \A p \in Products : p = lastCall'.args[3] =>
                    getBreachesByProduct(p)' =
                        Append(getBreachesByProduct(p), getTotalBreaches + 1)
            /\ \A id \in {getTotalBreaches + 1} :
                    /\ getBreachInfo(id)'.device = lastCall'.args[2]
                    /\ getBreachInfo(id)'.traceTokenId = lastCall'.args[3]
                    /\ getBreachInfo(id)'.batchId = lastCall'.args[4]
                    /\ getBreachInfo(id)'.breachType = lastCall'.args[5]
                    /\ getBreachInfo(id)'.metadataURI = lastCall'.args[6]
      ]_vars

\* Two records that agree on device, product, batch, breach type and report
\* location are stored under ids 1 and 2, both in the indexes.
C16_Witness ==
    /\ getTotalBreaches = 2
    /\ getBreachInfo(1).device = getBreachInfo(2).device
    /\ getBreachInfo(1).traceTokenId = getBreachInfo(2).traceTokenId
    /\ getBreachInfo(1).batchId = getBreachInfo(2).batchId
    /\ getBreachInfo(1).breachType = getBreachInfo(2).breachType
    /\ getBreachInfo(1).metadataURI = getBreachInfo(2).metadataURI
    /\ getBreachInfo(1).timestamp = getBreachInfo(2).timestamp
    /\ getBreachesByDevice(getBreachInfo(1).device) = <<1, 2>>
    /\ getBreachesByProduct(getBreachInfo(1).traceTokenId) = <<1, 2>>

(* C17: checkBreach reports no breach for every reading whose temperature    *)
(* is within the envelope, TEMP_MIN <= temp <= TEMP_MAX, the two limits       *)
(* included.                                                                 *)
C17_InRangeIsNoBreach ==
    (/\ evaluation.result # "unset"
     /\ TEMP_MIN <= evaluation.reading.temp
     /\ evaluation.reading.temp <= TEMP_MAX) => evaluation.result = "none"

\* checkBreach was applied to a reading at the upper limit.
C17_Witness ==
    /\ evaluation.reading.temp = TEMP_MAX
    /\ evaluation.result = "none"

(* C18: checkBreach reports TEMP_LOW for every reading with temp < TEMP_MIN  *)
(* and TEMP_HIGH for every reading with temp > TEMP_MAX, and a call of it    *)
(* changes neither the queues, nor the batch history, nor the ledger.        *)
C18_OutOfRangeIsBreach ==
    /\ [](evaluation.result # "unset" =>
            /\ evaluation.reading.temp < TEMP_MIN => evaluation.result = "TEMP_LOW"
            /\ evaluation.reading.temp > TEMP_MAX => evaluation.result = "TEMP_HIGH")
    /\ [][ evaluation' # evaluation =>
                UNCHANGED <<queueVars, batchHistory, ledgerVars>> ]_vars

\* checkBreach reported TEMP_HIGH just above the limit while a reading is queued.
C18_Witness ==
    /\ evaluation.reading.temp = TEMP_MAX + 1
    /\ evaluation.result = "TEMP_HIGH"
    /\ readingsQueue["d1"] # << >>

\* The readings of a batch document.
DocReadings(doc) == {doc.readings[n] : n \in 1 .. Len(doc.readings)}

(* C19: when the pin of device D's batch document fails and the pass ends,   *)
(* D's queue no longer holds the readings that were taken for that batch     *)
(* (the batch is dropped, not requeued).                                     *)
C19_PinFailureDropsBatch ==
    [][ \A p \in 1 .. MaxPasses :
            (/\ passes[p].pc = "pin"
             /\ passes'[p].pc = "done"
             /\ pinned' = pinned) =>
                \A d \in Devices : d = PassDevice(passes[p]) =>
                    \A r \in DocReadings(passes[p].doc) :
                        r \notin QueuedReadings(d)' ]_vars

(* C20: when the commit call of device D's batch throws and the pass ends,   *)
(* no batch-history entry is added for the batch and D's queue no longer     *)
(* holds the readings of the batch.                                          *)
C20_CommitFailureDropsBatch ==
    [][ \A p \in 1 .. MaxPasses :
            (/\ passes[p].pc = "commit"
             /\ passes'[p].pc = "done"
             /\ batchHistory' = batchHistory) =>
                \A d \in Devices : d = PassDevice(passes[p]) =>
                    \A r \in DocReadings(passes[p].doc) :
                        r \notin QueuedReadings(d)' ]_vars

(* C21: a breach mint that fails (the report pin or the mint call throws)    *)
(* does not stop the pass: the breach loop goes on with the next reading of  *)
(* the batch that is out of the envelope and calls handleBreach for it, and  *)
(* when there is none the pass finishes the device's batch (the queue is     *)
(* cleared and the pass moves on).                                           *)
C21_FailedMintDoesNotStopPass ==
    [][ \A p \in 1 .. MaxPasses :
            (/\ passes[p].pc = "handleBreach"
             /\ passes'[p] # passes[p]
             /\ nextId' = nextId) =>
                LET readings == PassReadings(passes[p])
                    later == {k \in (passes[p].j + 1) .. Len(readings) :
                                 checkBreach(readings[k]) # "none"}
                IN  IF later # {}
                    THEN /\ passes'[p].pc = "handleBreach"
                         /\ passes'[p].j \in later
                         /\ \A k \in later : passes'[p].j <= k
                         /\ passes'[p].report.timestamp = readings[passes'[p].j].t
                         /\ passes'[p].report.breachType =
                                checkBreach(readings[passes'[p].j])
                    ELSE /\ passes'[p].pc \in {"getDevice", "done"}
                         /\ \A d \in Devices : d = PassDevice(passes[p]) =>
                                readingsQueue'[d] = << >> ]_vars

\* A batch of two readings that are both out of the envelope: the mint for
\* the first failed, the second has its breach record, the batch is finished.
C21_Witness ==
    \E k \in 1 .. Len(pinned) :
        /\ Len(pinned[k].readings) = 2
        /\ checkBreach(pinned[k].readings[1]) # "none"
        /\ checkBreach(pinned[k].readings[2]) # "none"
        /\ faults = 1
        /\ Len(breaches) = 1
        /\ ReportOf(breaches[1]).timestamp = pinned[k].readings[2].t
        /\ Len(batchHistory) = 1
        /\ readingsQueue[pinned[k].device] = << >>
        /\ NoPassInProgress

\* The step of pass p is one that ends in the catch block of the loop body.
CatchTaken(p) ==
    /\ passes'[p] # passes[p]
    /\ \/ passes[p].pc = "getDevice" /\ passes'[p].pc # "sign"
       \/ passes[p].pc = "pin" /\ passes'[p].pc # "commit"
       \/ passes[p].pc = "commit" /\ batchHistory' = batchHistory

C23_WindowIsSealingInterval ==
    /\ \A k \in 1 .. Len(pinned) :
          /\ pinned[k].windowEnd = pinned[k].timestamp
          /\ pinned[k].windowStart = pinned[k].windowEnd - config.batchInterval
          /\ pinned[k].windowEnd > pinned[k].windowStart
    /\ \A k, m \in 1 .. Len(pinned) :
          pinned[k].timestamp = pinned[m].timestamp =>
              /\ pinned[k].windowStart = pinned[m].windowStart
              /\ pinned[k].windowEnd = pinned[m].windowEnd

(* C24: every batch document written to the store, and so every batch whose  *)
(* commit is sent, is non-empty and holds readings accepted for its device,  *)
(* every history entry is of such a document of the same device, and it is in *)
(* the order in which they were accepted (t numbers the accepted readings).  *)
C24_BatchesNonEmptyInArrivalOrder ==
    /\ \A k \in 1 .. Len(pinned) :
          LET doc == pinned[k]
          IN  /\ Len(doc.readings) > 0
              /\ \A n \in 1 .. Len(doc.readings) :
                    \E a \in accepted :
                        a.reading = doc.readings[n] /\ a.deviceId = doc.device
              /\ \A n, m \in 1 .. Len(doc.readings) :
                    n < m => doc.readings[n].t < doc.readings[m].t
    /\ \A h \in 1 .. Len(batchHistory) :
          \E k \in 1 .. Len(pinned) :
              /\ batchHistory[h].cid = k
              /\ batchHistory[h].device = pinned[k].device

\* A batch of two readings whose commit transaction was sent and mined, after
\* a pass skipped a device whose queue had been emptied.
C24_Witness ==
    /\ \E k \in 1 .. Len(pinned) :
          /\ Len(pinned[k].readings) = 2
          /\ \E h \in 1 .. Len(batchHistory) : batchHistory[h].cid = k
    /\ \E p \in 1 .. MaxPasses : passes[p].pc = "done"
    /\ \E k \in 1 .. Len(queueKeys) : readingsQueue[queueKeys[k]] = << >>

(* C25: breach records are never deleted or overwritten: every step leaves   *)
(* every stored record as it is. markResolved(id) changes neither the        *)
(* records, nor the indexes, nor the id counter, and when the operator calls *)
(* it for an id that was never minted it fails with BreachNotFound.          *)
C25_BreachRecordsPermanent ==
    /\ [][ \A id \in 1 .. getTotalBreaches :
              getBreachInfo(id)' = getBreachInfo(id) ]_vars
    /\ [][ (lastCall' # lastCall /\ lastCall'.fn = "markResolved") =>
              UNCHANGED nftVars ]_vars
    /\ [](lastCall.fn = "markResolved" /\ lastCall.caller = Operator =>
            (lastCall.result = "BreachNotFound"
                <=> ~(1 <= lastCall.args[1] /\ lastCall.args[1] <= getTotalBreaches)))

\* The operator marked record 1 resolved while two records are stored.
C25_Witness ==
    /\ lastCall.fn = "markResolved"
    /\ lastCall.caller = Operator
    /\ lastCall.args = <<1>>
    /\ lastCall.result = "ok"
    /\ getTotalBreaches = 2

(* C26: a device is registered at most once: addDevice by the operator for   *)
(* an address that is registered (active or deactivated) fails with          *)
(* DeviceAlreadyRegistered and changes nothing; the device list holds no     *)
(* address twice; getTotalDevices grows by one with every successful         *)
(* addDevice, from zero, and with nothing else.                              *)
C26_DeviceRegisteredOnce ==
    /\ [](\A i, j \in 1 .. Len(deviceList) : deviceList[i] = deviceList[j] => i = j)
    /\ [](getTotalDevices = Cardinality(isRegistered))
    /\ [][ (lastCall' # lastCall /\ lastCall'.fn = "addDevice"
              /\ lastCall'.args[1] \in isRegistered) =>
                  /\ lastCall'.result # "ok"
                  /\ (lastCall'.caller = Operator /\ lastCall'.args[2] # NullAddr)
                        => lastCall'.result = "DeviceAlreadyRegistered"
                  /\ UNCHANGED registryVars ]_vars
    /\ [][ getTotalDevices' =
              IF lastCall' # lastCall /\ lastCall'.fn = "addDevice"
                    /\ lastCall'.result = "ok"
              THEN getTotalDevices + 1
              ELSE getTotalDevices ]_vars

\* addDevice for a deactivated device was refused; two devices are registered.
C26_Witness ==
    /\ lastCall.fn = "addDevice"
    /\ lastCall.result = "DeviceAlreadyRegistered"
    /\ ~devices[lastCall.args[1]].active
    /\ getTotalDevices = 2

(* C27: while a registered device is deactivated, every ingest request for   *)
(* it is rejected (a well-formed, correctly signed one as inactive, 403) and *)
(* nothing is appended to its queue; once it is active again a well-formed,  *)
(* correctly signed reading is accepted when the registry can be read.       *)
C27_DeactivationStopsIngest ==
    /\ [][ \A d \in isRegistered : ~devices[d].active =>
              /\ Len(readingsQueue'[d]) <= Len(readingsQueue[d])
              /\ \A a \in accepted' \ accepted : a.deviceId # d
              /\ (ingest' # ingest /\ ingest'.deviceId = d)
                    => ingest'.status \in {400, 401, 403} ]_vars
    /\ [](\A d \in isRegistered : \A rpcOk \in BOOLEAN :
             IngestStatus(WellFormed, d, d, rpcOk /\ isDeviceActive(d)) =
                IF devices[d].active /\ rpcOk THEN 200 ELSE 403)
    /\ [][ \A d \in isRegistered : (~devices[d].active /\ devices'[d].active) =>
              IngestStatus(WellFormed, d, d, isDeviceActive(d))' = 200 ]_vars

\* A request for d1 was answered 403 while d1 is deactivated; d1 had a reading
\* accepted before.
C27_Witness ==
    /\ "d1" \in isRegistered /\ ~devices["d1"].active
    /\ ingest = [status |-> 403, deviceId |-> "d1"]
    /\ \E a \in accepted : a.deviceId = "d1"

C29_NoDuplicateReadings ==
    /\ [](\A i, j \in 1 .. Len(agriReadings) :
             agriReadings[i].dataHash = agriReadings[j].dataHash => i = j)
    /\ [](\A i \in 1 .. Len(agriReadings) : agriReadings[i].dataHash \in dataHashes)
    /\ [][ (/\ lastCall' # lastCall
            /\ lastCall'.fn = "submitSensorData"
            /\ hasRole("DEVICE_ROLE", lastCall'.caller)
            /\ \E k \in 1 .. Len(agriReadings) :
                  agriReadings[k] =
                     SensorReading(lastCall'.caller, lastCall'.args[1],
                        lastCall'.args[2], lastCall'.args[3], lastCall'.args[4],
                        SingleHash(clock, lastCall'.caller, lastCall'.args[1],
                           lastCall'.args[2], lastCall'.args[3], lastCall'.args[4])))
              => /\ lastCall'.result = "DuplicateDataHash"
                 /\ getTotalReadings' = getTotalReadings
                 /\ UNCHANGED agriVars ]_vars

\* The same submission was made twice in one block: the second one reverted.
C29_Witness ==
    /\ lastCall.fn = "submitSensorData"
    /\ lastCall.result = "DuplicateDataHash"
    /\ getTotalReadings = 1
    /\ agriReadings[1].deviceId = lastCall.caller
    /\ agriReadings[1].timestamp = clock

(* C30: AgriSensorData stores a submission only from a caller that holds     *)
(* DEVICE_ROLE when it calls: a call by anyone else reverts and stores       *)
(* nothing, also after the role was revoked from a device that had it; the   *)
(* role members change only through a call by an admin, and a revoke by an   *)
(* admin removes the account from the role.                                  *)
C30_OnlyDeviceRoleSubmits ==
    /\ [][ (/\ lastCall' # lastCall
            /\ lastCall'.fn \in {"submitSensorData", "submitBatch"}
            /\ lastCall'.caller \notin roleMembers["DEVICE_ROLE"])
              => /\ lastCall'.result = "AccessControlUnauthorizedAccount"
                 /\ UNCHANGED agriVars ]_vars
    /\ [][ \A k \in (Len(agriReadings) + 1) .. Len(agriReadings') :
              agriReadings'[k].deviceId \in roleMembers["DEVICE_ROLE"] ]_vars
    /\ [][ roleMembers' # roleMembers =>
              /\ lastCall'.fn \in {"grantRole", "revokeRole"}
              /\ lastCall'.caller \in roleMembers["DEFAULT_ADMIN_ROLE"] ]_vars
    /\ [][ (/\ lastCall' # lastCall
            /\ lastCall'.fn = "revokeRole"
            /\ lastCall'.caller \in roleMembers["DEFAULT_ADMIN_ROLE"])
              => lastCall'.args[2] \notin roleMembers'[lastCall'.args[1]] ]_vars

\* d1 stored a reading while it held the role; after the revocation its
\* submission reverted.
C30_Witness ==
    /\ lastCall.fn = "submitSensorData"
    /\ lastCall.caller = "d1"
    /\ lastCall.result = "AccessControlUnauthorizedAccount"
    /\ \E k \in 1 .. Len(agriReadings) : agriReadings[k].deviceId = "d1"

(* C31: every stored AgriSensorData reading has soilMoisture and humidity   *)
(* of at most 1000: submitSensorData by a device with an out-of-range value  *)
(* reverts with InvalidSensorData, submitBatch with arrays of differing      *)
(* lengths reverts with ArrayLengthMismatch, and a submitBatch with an       *)
(* invalid element at any index reverts and stores none of its readings.     *)
C31_OnlyValidReadingsStored ==
    /\ [](\A k \in 1 .. Len(agriReadings) :
             agriReadings[k].soilMoisture <= 1000 /\ agriReadings[k].humidity <= 1000)
    /\ [][ (/\ lastCall' # lastCall
            /\ lastCall'.fn = "submitSensorData"
            /\ lastCall'.caller \in roleMembers["DEVICE_ROLE"]
            /\ (lastCall'.args[3] > 1000 \/ lastCall'.args[4] > 1000))
              => /\ lastCall'.result = "InvalidSensorData"
                 /\ UNCHANGED agriVars ]_vars
    /\ [][ (/\ lastCall' # lastCall
            /\ lastCall'.fn = "submitBatch"
            /\ lastCall'.caller \in roleMembers["DEVICE_ROLE"]
            /\ \E a \in 2 .. 4 : Len(lastCall'.args[a]) # Len(lastCall'.args[1]))
              => /\ lastCall'.result = "ArrayLengthMismatch"
                 /\ UNCHANGED agriVars ]_vars
    /\ [][ (/\ lastCall' # lastCall
            /\ lastCall'.fn = "submitBatch"
            /\ \E a \in 3 .. 4 : \E i \in 1 .. Len(lastCall'.args[a]) :
                  lastCall'.args[a][i] > 1000)
              => /\ lastCall'.result # "ok"
                 /\ UNCHANGED agriVars ]_vars

\* A batch whose second element is invalid was refused as invalid, and its
\* first element was not stored.
C31_Witness ==
    /\ lastCall.fn = "submitBatch"
    /\ lastCall.result = "InvalidSensorData"
    /\ lastCall.args[3] = <<450, 1001>>
    /\ getTotalReadings = 0

(* C32: the ingest checks come in a fixed order and fail closed: a          *)
(* malformed reading is answered 400 whatever its signature and the          *)
(* registry say, a well-formed one whose signature does not parse or is not  *)
(* the claimed device's is answered 401 whatever the registry says, a        *)
(* well-formed, correctly signed one is answered 403 when the registry read  *)
(* fails, and only a request answered 200 is appended to a queue.            *)
C32_ChecksInOrderFailClosed ==
    /\ [](\A shape \in Shapes, signer \in Devices, d \in Devices, rpcOk \in BOOLEAN :
            LET status == IngestStatus(shape, signer, d, checkDeviceActive(rpcOk, d))
            IN  /\ ~WellFormedReading(shape) => status = 400
                /\ (WellFormedReading(shape) /\ (shape.sig # "hex" \/ signer # d))
                      => status = 401
                /\ (WellFormedReading(shape) /\ shape.sig = "hex" /\ signer = d
                      /\ ~rpcOk) => status = 403)
    /\ [][ \A a \in accepted' \ accepted :
              /\ WellFormedReading(a.shape)
              /\ a.signer = a.deviceId
              /\ a.isActive ]_vars

(* C33: verifyCIDHash agrees with the stored commitments: for a hash that   *)
(* no commitment holds it returns (false, 0); for a hash some commitment     *)
(* holds it returns (true, id), where getBatch(id) succeeds and gives a      *)
(* commitment with that hash.                                                *)
C33_VerifyAgreesWithCommitments ==
    \A h \in AnchorHashes :
        IF \E k \in 1 .. Len(batches) : batches[k].cidHash = h
        THEN /\ verifyCIDHash(h)[1] = TRUE
             /\ "error" \notin DOMAIN getBatch(verifyCIDHash(h)[2])
             /\ getBatch(verifyCIDHash(h)[2]).cidHash = h
        ELSE verifyCIDHash(h) = <<FALSE, 0>>

\* Two hashes are committed; the second is found at an id other than 0, the
\* third possible hash is not committed.
C33_Witness ==
    /\ verifyCIDHash(1)[1] /\ verifyCIDHash(2)[1]
    /\ verifyCIDHash(1)[2] # verifyCIDHash(2)[2]
    /\ Len(batches) = 3

\* The sum of f over the set S.
RECURSIVE SumOver(_, _)
SumOver(f, S) ==
    IF S = {} THEN 0
    ELSE LET x == CHOOSE y \in S : TRUE IN f[x] + SumOver(f, S \ {x})

(* C38: the per-device batch index agrees with the stored commitments:       *)
(* getBatchesByDevice(d) lists exactly the ids of the commitments whose      *)
(* device is d, each once and in increasing order; getLatestBatch(d) gives   *)
(* the highest such id with its commitment and fails with BatchNotFound when *)
(* d has none; getDeviceBatchCount(d) is the length of the list and the      *)
(* counts of all devices add up to getTotalBatches.                          *)
C38_DeviceIndexConsistent ==
    /\ \A d \in Devices :
          LET ids == getBatchesByDevice(d)
              own == {k \in 0 .. (Len(batches) - 1) : batches[k + 1].device = d}
          IN  /\ {ids[i] : i \in 1 .. Len(ids)} = own
              /\ \A i, j \in 1 .. Len(ids) : i < j => ids[i] < ids[j]
              /\ getDeviceBatchCount(d) = Len(ids)
              /\ Len(ids) = Cardinality(own)
              /\ IF own = {}
                 THEN getLatestBatch(d) = [error |-> "BatchNotFound"]
                 ELSE /\ "error" \notin DOMAIN getLatestBatch(d)
                      /\ \A k \in own : k <= getLatestBatch(d).batchId
                      /\ getLatestBatch(d).batchId \in own
                      /\ getLatestBatch(d).commitment = getBatch(getLatestBatch(d).batchId)
    /\ SumOver([d \in Devices |-> getDeviceBatchCount(d)], Devices) = getTotalBatches

\* d1 has the commitments 0 and 2, d2 has commitment 1, d3 has none.
C38_Witness ==
    /\ getBatchesByDevice("d1") = <<0, 2>>
    /\ getBatchesByDevice("d2") = <<1>>
    /\ getLatestBatch("d1").batchId = 2
    /\ getTotalBatches = 3

(* C34: getBatchBreach(batchId) reports hasBreaches exactly when a breach   *)
(* record was minted with that batchId, and the tokenId it returns is then   *)
(* the id of the record minted last for that batch; the earlier records of   *)
(* the batch are still listed by the device and product indexes.             *)
C34_BatchBreachIsLatest ==
    \A b \in BatchIds :
        LET minted == {k \in 1 .. Len(breaches) : breaches[k].batchId = b}
        IN  /\ getBatchBreach(b)[1] = (minted # {})
            /\ minted = {} => getBatchBreach(b)[2] = 0
            /\ minted # {} =>
                  /\ \A k \in minted : breaches[k].tokenId <= getBatchBreach(b)[2]
                  /\ \E k \in minted : breaches[k].tokenId = getBatchBreach(b)[2]
            /\ \A k \in minted :
                  /\ \E i \in 1 .. Len(getBreachesByDevice(breaches[k].device)) :
                        getBreachesByDevice(breaches[k].device)[i] = breaches[k].tokenId
                  /\ \E i \in 1 .. Len(getBreachesByProduct(breaches[k].traceTokenId)) :
                        getBreachesByProduct(breaches[k].traceTokenId)[i] =
                           breaches[k].tokenId

\* Two records were minted for batch 1 and none for batch 0.
C34_Witness ==
    /\ getBatchBreach(1) = <<TRUE, 2>>
    /\ getBatchBreach(0) = <<FALSE, 0>>
    /\ Len(breaches) = 2

(* C35: every breach record minted in a sealing pass is for a reading that  *)
(* the batch document pinned in that pass contains (the document its         *)
(* report names as batchCID): a reading that is ingested after the pin does  *)
(* not get a breach record in that pass.                                     *)
C35_BreachesAreOfSealedReadings ==
    \A k \in 1 .. Len(breaches) :
        LET report == ReportOf(breaches[k])
        IN  /\ report.batchCID \in 1 .. Len(pinned)
            /\ pinned[report.batchCID].device = report.device
            /\ \E r \in SealedIn(report.batchCID) :
                  r.t = report.timestamp /\ r.temp = report.temp

(* C36: the counts recorded for a sealed batch agree with its content: the  *)
(* count of the pinned document is the number of its readings, the operator  *)
(* signature in it is over that content, and the count of the batch-history  *)
(* entry is that same number.                                                *)
C36_CountsAgreeWithContent ==
    /\ \A k \in 1 .. Len(pinned) :
          /\ pinned[k].count = Len(pinned[k].readings)
          /\ pinned[k].sig = pinned[k].readings
    /\ \A h \in 1 .. Len(batchHistory) :
          /\ batchHistory[h].cid \in 1 .. Len(pinned)
          /\ batchHistory[h].count = Len(pinned[batchHistory[h].cid].readings)

(* C37: every batch-history entry of the server corresponds to a commitment  *)
(* stored on the ledger, with the entry's device, a contentHash equal to the *)
(* entry's cidHash and the same window; and the number of history entries    *)
(* (batchesCommitted) is the number of commitments stored for the server.    *)
C37_HistoryMatchesCommitments ==
    /\ \A h \in 1 .. Len(batchHistory) :
          \E i \in 1 .. Len(batches) :
              /\ batches[i].device = batchHistory[h].device
              /\ batches[i].cidHash = batchHistory[h].cidHash
              /\ batches[i].windowStart = batchHistory[h].windowStart
              /\ batches[i].windowEnd = batchHistory[h].windowEnd
    /\ Len(batchHistory) = Len(batches)

\* The step is a call of fn by an administrator for device d that succeeded.
RegistryCallApplied(fn, d) ==
    /\ lastCall' # lastCall
    /\ lastCall'.fn = fn
    /\ lastCall'.args[1] = d
    /\ lastCall'.result = "ok"

(* C39: isDeviceActive(d) is true exactly when d was registered and its most *)
(* recent activation change is not a deactivation (registration activates,   *)
(* only a deactivation or reactivation of d changes the answer afterwards);  *)
(* a registered device stays registered and getDevice keeps succeeding with  *)
(* the same owner, product link and registration time; deactivateDevice,     *)
(* reactivateDevice, updateMetadata and getDevice for an unregistered        *)
(* address fail with DeviceNotFound and change nothing.                      *)
C39_RegistryLifecycle ==
    /\ [](\A d \in Provisioned : d \notin isRegistered => ~isDeviceActive(d))
    /\ [][ \A d \in Provisioned :
              /\ RegistryCallApplied("addDevice", d) => isDeviceActive(d)'
              /\ RegistryCallApplied("reactivateDevice", d) => isDeviceActive(d)'
              /\ RegistryCallApplied("deactivateDevice", d) => ~isDeviceActive(d)'
              /\ isDeviceActive(d)' # isDeviceActive(d) =>
                    \/ RegistryCallApplied("addDevice", d)
                    \/ RegistryCallApplied("reactivateDevice", d)
                    \/ RegistryCallApplied("deactivateDevice", d) ]_vars
    /\ [][ \A d \in Provisioned : d \in isRegistered =>
              /\ d \in isRegistered'
              /\ "error" \notin DOMAIN getDevice(d)
              /\ "error" \notin DOMAIN getDevice(d)'
              /\ getDevice(d)'.owner = getDevice(d).owner
              /\ getDevice(d)'.traceTokenId = getDevice(d).traceTokenId
              /\ getDevice(d)'.registeredAt = getDevice(d).registeredAt ]_vars
    /\ [][ (/\ lastCall' # lastCall
            /\ lastCall'.fn \in {"deactivateDevice", "reactivateDevice",
                                 "updateMetadata", "getDevice"}
            /\ lastCall'.args[1] \notin isRegistered) =>
                /\ lastCall'.result # "ok"
                /\ (HasAdminRole(lastCall'.caller) \/ lastCall'.fn = "getDevice")
                        => lastCall'.result = "DeviceNotFound"
                /\ UNCHANGED registryVars ]_vars

\* A registered device that was deactivated and had its metadata replaced is
\* read with getDevice; the other provisioned address was never registered
\* and is not active.
C39_Witness ==
    \E d, e \in Provisioned :
        /\ d \in isRegistered
        /\ ~isDeviceActive(d)
        /\ devices[d].metadataCID = <<"ipfs", 2>>
        /\ lastCall.fn = "getDevice"
        /\ lastCall.args = <<d>>
        /\ lastCall.result = "ok"
        /\ e \notin isRegistered

\* The accepted reading number n is in a queue.
InQueue(n) ==
    \E d \in Devices : \E r \in QueuedReadings(d) : r.t = n

\* Reading n is in a pinned batch document whose commitment is on the ledger.
SealedAndCommitted(n) ==
    \E k \in 1 .. Len(pinned) :
        /\ \E r \in SealedIn(k) : r.t = n
        /\ \E i \in 1 .. Len(batches) :
              /\ batches[i].cidHash = Keccak(k)
              /\ batches[i].device = pinned[k].device

\* The next processBatches call is still to come: no pass runs and the timer
\* will start one, with whatever is queued now.
PassToCome == NoPassInProgress /\ ENABLED TimerTick

\* The passes that are modelled are used up while reading n is still queued:
\* what happens to it is beyond the behaviours that are explored.
BeyondBound(n) == InQueue(n) /\ NoPassInProgress /\ ~ENABLED TimerTick

(* C40: with a fair timer and calls that succeed from some point on, every   *)
(* reading that is queued when a sealing pass starts is eventually in a      *)
(* batch that is pinned and committed, and every reading that was accepted   *)
(* into a queue eventually leaves it.                                        *)
C40_QueuedEventuallyCommitted ==
    \A n \in 1 .. MaxReadings :
        /\ (InQueue(n) /\ PassToCome) ~> (SealedAndCommitted(n) \/ BeyondBound(n))
        /\ InQueue(n) ~> (~InQueue(n) \/ BeyondBound(n))

====
